---- MODULE Spec2Model ----
(***************************************************************************)
(* Session-scoped model-building workflow of ml-builder-backend:           *)
(* the two-tier session store (SESSIONS + Redis), the upload / preprocess  *)
(* / train / metrics / save handlers of app.py, the planner of             *)
(* ml_models/preprocessing.py and the training engine of                   *)
(* ml_models/classifiers.py.                                               *)
(*                                                                         *)
(* Python objects are modelled by reference where the code shares them:    *)
(* session dicts live in `heap` and are named by object ids, and the       *)
(* ColumnTransformer objects reachable from a session live in the          *)
(* session's `objs` sequence and are named by their index.                 *)
(***************************************************************************)
EXTENDS Integers, Sequences, FiniteSets, TLC

\* ------------------------------------------------------------------ bounds
MaxSessions == 1
MaxRequests == 4
MaxThreadedRequests == 3
MaxRestarts == 1
MaxStrLen == 2

\* ------------------------------------------------------------------ values
\* Python's None / a present value, as a sequence of length 0 or 1.
None == <<>>
Some(x) == <<x>>

SeqToSet(s) == {s[i] : i \in DOMAIN s}

\* JSON request values, tagged by their Python type.
JNull == [tag |-> "null"]
JInt(n) == [tag |-> "int", v |-> n]
JBool(b) == [tag |-> "bool", v |-> IF b THEN 1 ELSE 0]
\* A float n.5 (n >= 0): int() truncates it to n, and it is never falsy.
JFloat(n) == [tag |-> "float", v |-> n]
JStr(s) == [tag |-> "str", chars |-> s]
JList(xs) == [tag |-> "list", items |-> xs]
JObj == [tag |-> "obj"]

\* ------------------------------------------------------------------ strings
Digits == <<"0", "1", "2", "3", "4", "5", "6", "7", "8", "9">>

IsDigit(c) == \E i \in DOMAIN Digits : Digits[i] = c

DigitVal(c) == (CHOOSE i \in DOMAIN Digits : Digits[i] = c) - 1

IsSpace(c) == c \in {" "}

IsSep(c) == c \in {",", ";"} \/ IsSpace(c)

\* str.strip(): leading and trailing whitespace removed.
RECURSIVE LStrip(_)
LStrip(s) == IF s # <<>> /\ IsSpace(Head(s)) THEN LStrip(Tail(s)) ELSE s

RECURSIVE RStrip(_)
RStrip(s) == IF s # <<>> /\ IsSpace(s[Len(s)])
             THEN RStrip(SubSeq(s, 1, Len(s) - 1)) ELSE s

Strip(s) == RStrip(LStrip(s))

\* re.split(r"[,;\s]+", s): the pieces between maximal runs of separators,
\* an empty piece included where s starts or ends with a separator.
RECURSIVE SkipSeps(_)
SkipSeps(s) == IF s # <<>> /\ IsSep(Head(s)) THEN SkipSeps(Tail(s)) ELSE s

RECURSIVE ReSplitFrom(_, _)
ReSplitFrom(s, cur) ==
    IF s = <<>> THEN <<cur>>
    ELSE IF IsSep(Head(s)) THEN <<cur>> \o ReSplitFrom(SkipSeps(s), <<>>)
    ELSE ReSplitFrom(Tail(s), Append(cur, Head(s)))

ReSplit(s) == ReSplitFrom(s, <<>>)

RECURSIVE DigitsValue(_, _)
DigitsValue(s, acc) ==
    IF s = <<>> THEN acc ELSE DigitsValue(Tail(s), 10 * acc + DigitVal(Head(s)))

AllDigits(s) == s # <<>> /\ \A i \in DOMAIN s : IsDigit(s[i])

\* int(<str>): optional surrounding whitespace, optional sign, decimal digits.
StrToInt(s) ==
    LET t == Strip(s)
        signed == t # <<>> /\ Head(t) \in {"-", "+"}
        body == IF signed THEN Tail(t) ELSE t
    IN IF AllDigits(body)
       THEN [ok |-> TRUE,
             v |-> IF signed /\ Head(t) = "-" THEN 0 - DigitsValue(body, 0)
                   ELSE DigitsValue(body, 0)]
       ELSE [ok |-> FALSE, v |-> 0]

\* int(x) of a request value: TypeError / ValueError is ok = FALSE.
PyInt(x) ==
    CASE x.tag \in {"int", "bool", "float"} -> [ok |-> TRUE, v |-> x.v]
      [] x.tag = "str" -> StrToInt(x.chars)
      [] OTHER -> [ok |-> FALSE, v |-> 0]

\* Python truthiness of a request value (the operand of `or`).
Truthy(x) ==
    CASE x.tag = "null" -> FALSE
      [] x.tag \in {"int", "bool"} -> x.v # 0
      [] x.tag = "str" -> x.chars # <<>>
      [] x.tag = "list" -> x.items # <<>>
      [] OTHER -> TRUE

\* a or b
PyOr(a, b) == IF Truthy(a) THEN a ELSE b

\* ------------------------------------------------------------------ hidden layers
ParseOk(layers) == [ok |-> TRUE, layers |-> layers]
ParseErr == [ok |-> FALSE, layers |-> <<>>]

IntsOf(xs) == [i \in DOMAIN xs |-> PyInt(xs[i]).v]

\* The tail of the explicit branch: every size must be positive.
CheckPositive(arr) ==
    IF \E i \in DOMAIN arr : arr[i] <= 0 THEN ParseErr ELSE ParseOk(arr)

\* Lines 248-267: an explicit hidden_layers value, by its type.
ParseExplicit(value) ==
    CASE value.tag = "list" ->
             IF \E i \in DOMAIN value.items : ~PyInt(value.items[i]).ok
             THEN ParseErr
             ELSE CheckPositive(IntsOf(value.items))
      [] value.tag = "str" ->
             LET parts == SelectSeq(ReSplit(Strip(value.chars)), LAMBDA p : p # <<>>)
             IN IF parts = <<>> THEN ParseErr
                ELSE IF \E i \in DOMAIN parts : ~StrToInt(parts[i]).ok
                THEN ParseErr
                ELSE CheckPositive([i \in DOMAIN parts |-> StrToInt(parts[i]).v])
      [] value.tag \in {"int", "bool"} -> CheckPositive(<<value.v>>)
      [] OTHER -> ParseErr

\* Lines 270-275: num_layers and neurons, both there.
ParsePair(num_layers_val, neurons_val) ==
    LET n_layers == PyInt(num_layers_val)
        n_neurons == PyInt(neurons_val)
    IN IF ~n_layers.ok \/ ~n_neurons.ok THEN ParseErr
       ELSE IF n_layers.v <= 0 \/ n_neurons.v <= 0 THEN ParseErr
       ELSE ParseOk([i \in 1..n_layers.v |-> n_neurons.v])

\* Mutant: the pair is looked at before the explicit value.
ParseHiddenLayers_PairFirst(value, num_layers_val, neurons_val) ==
    IF num_layers_val.tag # "null" /\ neurons_val.tag # "null"
    THEN ParsePair(num_layers_val, neurons_val)
    ELSE IF value.tag # "null" THEN ParseExplicit(value)
    ELSE ParseOk(<<100>>)

\* train_model._parse_hidden_layers(value, num_layers_val, neurons_val)
ParseHiddenLayers(value, num_layers_val, neurons_val) ==
    IF value.tag # "null" THEN ParseExplicit(value)
    ELSE IF num_layers_val.tag # "null" /\ neurons_val.tag # "null"
    THEN ParsePair(num_layers_val, neurons_val)
    ELSE ParseOk(<<100>>)

\* The hyperparameter fields of a training request body (data.get(...)).
HParams(hidden, num_layers, neurons, nuearals) ==
    [hidden_layers |-> hidden, num_layers |-> num_layers,
     neurons |-> neurons, nuearals |-> nuearals]

\* Lines 280-285: the fields read and handed to the parser.
HiddenLayersOf(hp) ==
    ParseHiddenLayers(hp.hidden_layers, hp.num_layers,
                      PyOr(hp.neurons, hp.nuearals))

\* ------------------------------------------------------------------ datasets
\* The uploaded tables.  A cell is a class code, 0 standing for a missing
\* value (NaN).  "tab" has a numeric column a with seven distinct values,
\* a categorical column b whose first row is missing, and a label column t
\* whose last row is missing; "one" has the label column only.
Datasets == {"tab", "one"}

Columns(d) == IF d = "tab" THEN <<"a", "b", "t">> ELSE <<"t">>

NumericDtype(d) == IF d = "tab" THEN {"a", "t"} ELSE {"t"}

Cells(d) ==
    IF d = "tab"
    THEN [a |-> <<1, 2, 3, 4, 5, 6, 7>>,
          b |-> <<0, 1, 1, 2, 2, 1, 2>>,
          t |-> <<1, 1, 1, 2, 2, 2, 0>>]
    ELSE [t |-> <<1, 2>>]

\* pd.read_csv / pd.read_excel: the frame, as its table and the original
\* row numbers it still holds, in order.
ReadFile(d) == [data |-> d, rows |-> [i \in DOMAIN Cells(d).t |-> i]]

HasColumn(df, c) == \E i \in DOMAIN Columns(df.data) : Columns(df.data)[i] = c

IsNull(df, c, r) == Cells(df.data)[c][r] = 0

\* Mutant: no row is filtered out.
DropNull_KeepAll(rows, df, c) == rows

\* df.loc[mask].reset_index(drop=True) with mask = ~df[c].isnull()
DropNull(rows, df, c) == SelectSeq(rows, LAMBDA r : ~IsNull(df, c, r))

\* int(y.isnull().sum())
CountNull(rows, df, c) == Len(rows) - Len(DropNull(rows, df, c))

\* ------------------------------------------------------------------ preprocessing.py
\* PreprocessorFactory.analyze_dataframe (the target is known to be a column)
AnalyzeDataframe(df, target_column) ==
    LET feature_columns == SelectSeq(Columns(df.data), LAMBDA c : c # target_column)
    IN [method |-> "",
        target_column |-> target_column,
        feature_columns |-> feature_columns,
        numeric_columns |-> SelectSeq(feature_columns,
                                      LAMBDA c : c \in NumericDtype(df.data)),
        categorical_columns |-> SelectSeq(feature_columns,
                                      LAMBDA c : c \notin NumericDtype(df.data))]

\* str.lower() on the method and model-type names a request can carry.
Lower(s) ==
    CASE s = "OneHot" -> "onehot"
      [] s = "MLP" -> "mlp"
      [] OTHER -> s

Methods == {"normalization", "onehot"}

\* PreprocessorFactory.build: the checks it makes, in order.
BuildError(config, method) ==
    IF Lower(method) \notin Methods THEN "InvalidMethod"
    ELSE IF config.numeric_columns = <<>> /\ config.categorical_columns = <<>>
    THEN "NoUsableFeatures"
    ELSE ""

\* PreprocessorFactory.build: config.method is set in place.
BuildConfig(config, method) == [config EXCEPT !.method = Lower(method)]

\* A ColumnTransformer object: the columns it transforms, unfitted when
\* built, and after a fit the rows its statistics (medians, scale factors,
\* vocabularies) were learned from.
Unfitted(cols) == [cols |-> cols, fitted |-> FALSE, rows |-> {}]
FittedOn(obj, rows) == [obj EXCEPT !.fitted = TRUE, !.rows = rows]

\* ------------------------------------------------------------------ classifiers.py
RECURSIVE SumOver(_, _)
SumOver(S, f) ==
    IF S = {} THEN 0
    ELSE LET x == CHOOSE x \in S : TRUE IN f[x] + SumOver(S \ {x}, f)

\* The class codes of a target series, by position.
Labels(y) == [i \in DOMAIN y.rows |-> Cells(y.data)[y.col][y.rows[i]]]

ClassesOf(labels) == SeqToSet(labels)

PositionsOf(labels, c) == {i \in DOMAIN labels : labels[i] = c}

\* The test fraction is carried in percent: ceil(test_size * n_samples).
NTest(n, test_size) == (n * test_size + 99) \div 100

\* How many test rows each class gets (stratify=y): its proportional share
\* rounded down, the rest handed out by largest remainder.
TestShare(labels, n_test) ==
    LET n == Len(labels)
        cls == ClassesOf(labels)
        cnt == [c \in cls |-> Cardinality(PositionsOf(labels, c))]
        base == [c \in cls |-> (cnt[c] * n_test) \div n]
        rem == [c \in cls |-> (cnt[c] * n_test) % n]
        left == n_test - SumOver(cls, base)
        before(c) == Cardinality({d \in cls : rem[d] > rem[c]
                                               \/ (rem[d] = rem[c] /\ d < c)})
    IN [c \in cls |-> base[c] + (IF before(c) < left THEN 1 ELSE 0)]

\* The last k elements of a set of positions.
LastOf(S, k) == {i \in S : Cardinality({j \in S : j > i}) < k}

\* train_test_split(X, y, test_size=..., random_state=42, stratify=y): the
\* errors it raises, and the positions of the test partition.  The seeded
\* shuffle is a fixed function of its inputs; it is taken to pick, in every
\* class, the last rows of that class.
SplitFails(nX, labels, test_size) ==
    LET n == Len(labels)
        k == Cardinality(ClassesOf(labels))
        n_test == NTest(n, test_size)
    IN \/ nX # n
       \/ n = 0
       \/ test_size <= 0 \/ test_size >= 100
       \/ n - n_test = 0
       \/ \E c \in ClassesOf(labels) : Cardinality(PositionsOf(labels, c)) < 2
       \/ n - n_test < k
       \/ n_test < k

TestPositions(labels, test_size) ==
    LET share == TestShare(labels, NTest(Len(labels), test_size))
    IN UNION {LastOf(PositionsOf(labels, c), share[c]) : c \in ClassesOf(labels)}

\* The three model classes and the names train_model accepts for them.
MlpNames == {"mlp", "multilayer_perceptron", "backpropagation"}

ModelNames == {"perceptron", "decision_tree"} \cup MlpNames

\* BaseClassifierModel.__init__: the model_type each class reports.
ReportedType(model_type) ==
    IF model_type \in MlpNames THEN "multilayer_perceptron" ELSE model_type

\* estimator.fit on the training partition: Perceptron needs two classes,
\* MLPClassifier a positive learning_rate_init.
EstimatorFails(model, train_labels) ==
    \/ model.kind = "perceptron" /\ Cardinality(train_labels) < 2
    \/ model.kind = "multilayer_perceptron" /\ model.learning_rate <= 0

\* ------------------------------------------------------------------ state
Procs == {1, 2}
Threads == {1, 2}
SessionIds == 1..MaxSessions
ObjIds == 1..(Cardinality(Procs) * MaxSessions + Cardinality(Threads))

VARIABLES
    USE_REDIS,   \* whether the durable tier is configured
    threaded,    \* whether the server handles requests concurrently
    procOf,      \* the process each request thread runs in
    SESSIONS,    \* per process: session id -> session object (0: no entry)
    heap,        \* session object id -> None or Some(the dict)
    redis,       \* session id -> None or Some(the pickled snapshot)
    minted,      \* how many session ids uuid4 has produced
    pc,          \* per thread: where its handler stands
    req,         \* per thread: the request being handled
    sess,        \* per thread: the session object get_session returned (0: none)
    loc,         \* per thread: the handler's local variables
    resp,        \* per thread: None or Some(the last response)
    nreq,        \* requests accepted so far
    nrestart,    \* process restarts so far
    logged,      \* how many times "Failed to persist session to Redis" was logged
    saved_models \* the saved_models directory: file name -> None or Some(the dumped pipeline)

deploy == <<USE_REDIS, threaded, procOf>>
store == <<SESSIONS, heap, redis, minted, logged>>
thread == <<pc, req, sess, loc, resp>>
budget == <<nreq, nrestart>>
disk == <<saved_models>>
vars == <<deploy, disk, store, thread, budget>>

Obj(o) == heap[o][1]

\* upload_dataset, lines 109-114: the new session dict (X and y are not keys
\* of it yet) and the ColumnTransformer objects reachable from it (none).
NewSession(df) ==
    [dataframe |-> df,
     preprocess_config |-> None,
     preprocessor |-> None,
     X |-> None,
     y |-> None,
     models |-> [m \in ModelNames |-> None],
     objs |-> <<>>]

\* Objects nothing refers to any more are dropped.
Collect(h, S, se) ==
    [o \in ObjIds |->
        IF (\E p \in Procs, k \in SessionIds : S[p][k] = o) \/ (\E t \in Threads : se[t] = o)
        THEN h[o] ELSE None]

FreshObj == CHOOSE o \in ObjIds : heap[o] = None /\ \A q \in ObjIds : heap[q] = None => o <= q

Response(status, error, body) == [status |-> status, error |-> error, body |-> body]

\* The thread returns its response; its locals go away.
Finish(t, r, S, h) ==
    /\ pc' = [pc EXCEPT ![t] = "idle"]
    /\ resp' = [resp EXCEPT ![t] = Some(r)]
    /\ req' = [req EXCEPT ![t] = None]
    /\ loc' = [loc EXCEPT ![t] = None]
    /\ sess' = [sess EXCEPT ![t] = 0]
    /\ heap' = Collect(h, S, [sess EXCEPT ![t] = 0])

FailWith(t, error, h) ==
    /\ Finish(t, Response(400, error, None), SESSIONS, h)
    /\ UNCHANGED <<deploy, disk, SESSIONS, redis, minted, logged, budget>>

Fail(t, error) == FailWith(t, error, heap)

Goto(t, label) == pc' = [pc EXCEPT ![t] = label]

\* A request is accepted when a thread is free; a server that is not threaded
\* has one thread per process.
CanStart(t) ==
    /\ pc[t] = "idle"
    /\ nreq < (IF threaded THEN MaxThreadedRequests ELSE MaxRequests)
    /\ threaded \/ \A u \in Threads : procOf[u] = procOf[t] => t <= u

\* The session id of an upload is not known to a client before its response.
Known(k) == \A u \in Threads : pc[u] # "idle" /\ req[u][1].kind = "upload"
                                   => req[u][1].session_id # k

Accept(t, r, label) ==
    /\ req' = [req EXCEPT ![t] = Some(r)]
    /\ resp' = [resp EXCEPT ![t] = None]
    /\ Goto(t, label)
    /\ nreq' = nreq + 1
    /\ UNCHANGED <<deploy, disk, SESSIONS, redis, minted, logged, nrestart>>

R(t) == req[t][1]
L(t) == loc[t][1]

\* ------------------------------------------------------------------ responses
\* The JSON body of a 200 response, built from the handler's locals.
OkBody(t) ==
    CASE R(t).kind = "upload" ->
             [session_id |-> R(t).session_id,
              num_rows |-> Len(L(t).df.rows),
              columns |-> Columns(L(t).df.data)]
      [] R(t).kind = "preprocess" ->
             [summary |-> L(t).config,
              dropped_rows_with_missing_target |->
                  IF L(t).dropped_rows # 0 THEN Some(L(t).dropped_rows) ELSE None]
      [] OTHER ->
             [model_type |-> R(t).model_type, metrics |-> L(t).result]

\* ------------------------------------------------------------------ _persist_session
\* Line 73: SESSIONS[session_id] = sess.
PersistLocal(t) ==
    /\ pc[t] = "persist_local"
    /\ LET S == [SESSIONS EXCEPT ![procOf[t]][R(t).session_id] = sess[t]] IN
       /\ SESSIONS' = S
       /\ IF USE_REDIS
          THEN /\ Goto(t, "persist_durable")
               /\ heap' = Collect(heap, S, sess)
               /\ UNCHANGED <<req, sess, loc, resp>>
          ELSE Finish(t, Response(200, "", OkBody(t)), S, heap)
    /\ UNCHANGED <<deploy, disk, redis, minted, logged, budget>>

\* Mutant: a failed write wipes the entry it could not replace.
RedisSet_WipeOnFailure(k, snapshot, ok) ==
    [redis EXCEPT ![k] = IF ok THEN Some(snapshot) ELSE None]

\* What redis_client.set(key, pickle.dumps(sess)) leaves in the store.
RedisSet(k, snapshot, ok) == IF ok THEN [redis EXCEPT ![k] = Some(snapshot)] ELSE redis

\* Mutant: a write keeps the model entries of the snapshot it replaces
\* that the writer's copy does not have.
PersistDurable_Merging(t) ==
    /\ pc[t] = "persist_durable"
    /\ \E ok \in BOOLEAN :
          LET k == R(t).session_id
              mine == Obj(sess[t])
              merged == [mine EXCEPT !.models = [m \in ModelNames |->
                            IF mine.models[m] = None /\ redis[k] # None
                            THEN redis[k][1].models[m] ELSE mine.models[m]]]
          IN /\ redis' = RedisSet(k, merged, ok)
             /\ logged' = IF ok THEN logged ELSE logged + 1
    /\ Finish(t, Response(200, "", OkBody(t)), SESSIONS, heap)
    /\ UNCHANGED <<deploy, disk, SESSIONS, minted, budget>>

\* Lines 74-79: the write-through; a failure is logged and swallowed.
PersistDurable(t) ==
    /\ pc[t] = "persist_durable"
    /\ \E ok \in BOOLEAN :
          /\ redis' = RedisSet(R(t).session_id, Obj(sess[t]), ok)
          /\ logged' = IF ok THEN logged ELSE logged + 1
    /\ Finish(t, Response(200, "", OkBody(t)), SESSIONS, heap)
    /\ UNCHANGED <<deploy, disk, SESSIONS, minted, budget>>

\* ------------------------------------------------------------------ get_session
AfterGet(kind) ==
    CASE kind = "preprocess" -> "pp_analyze"
      [] kind = "metrics" -> "cm_lookup"
      [] kind = "save" -> "sv_lookup"
      [] OTHER -> "tr_check"

\* What get_session does on a local miss with no usable durable entry.
MissOutcome(readError) == IF readError THEN "DurableReadError" ELSE "NotFound"

\* Mutant: a local entry counts only while the durable tier has none.
LocalHit_UnlessDurable(p, k) == SESSIONS[p][k] # 0 /\ redis[k] = None

\* Line 51: session_id in SESSIONS, in the process that handles the request.
LocalHit(p, k) == SESSIONS[p][k] # 0

\* Lines 51-57: the local tier first, then the read of the durable tier,
\* which may raise.
GetSession(t) ==
    /\ pc[t] = "get"
    /\ LET k == R(t).session_id
           p == procOf[t]
       IN IF LocalHit(p, k)
          THEN /\ sess' = [sess EXCEPT ![t] = SESSIONS[p][k]]
               /\ Goto(t, AfterGet(R(t).kind))
               /\ UNCHANGED <<deploy, disk, store, req, loc, resp, budget>>
          ELSE IF ~USE_REDIS
          THEN Fail(t, MissOutcome(FALSE))
          ELSE \E up \in BOOLEAN :
                  IF up
                  THEN /\ loc' = [loc EXCEPT ![t] = Some([raw |-> redis[k]])]
                       /\ Goto(t, "get_loads")
                       /\ UNCHANGED <<deploy, disk, store, req, sess, resp, budget>>
                  ELSE Fail(t, MissOutcome(TRUE))

\* Mutant: the loaded session is returned but not cached.
Populate_Skip(S, p, k, o) == S

\* Line 62: SESSIONS[session_id] = sess
Populate(S, p, k, o) == [S EXCEPT ![p][k] = o]

\* Lines 58-68: no entry, or one pickle.loads rejects, is a missing session;
\* a good one is put in the local tier and returned.
GetLoads(t) ==
    /\ pc[t] = "get_loads"
    /\ \E good \in BOOLEAN :
          IF L(t).raw # None /\ good
          THEN LET o == FreshObj
                   S == Populate(SESSIONS, procOf[t], R(t).session_id, o)
                   se == [sess EXCEPT ![t] = o]
               IN /\ SESSIONS' = S
                  /\ sess' = se
                  /\ heap' = Collect([heap EXCEPT ![o] = L(t).raw], S, se)
                  /\ loc' = [loc EXCEPT ![t] = None]
                  /\ Goto(t, AfterGet(R(t).kind))
                  /\ UNCHANGED <<deploy, disk, redis, minted, logged, req, resp, budget>>
          ELSE Fail(t, MissOutcome(FALSE))

\* ------------------------------------------------------------------ upload_dataset
Files == Datasets \cup {"garbage"}

\* Lines 90-115: a file that cannot be read is a 400; otherwise a session
\* is made under a new id and handed to _persist_session.
UploadDataset(t, f) ==
    /\ CanStart(t)
    /\ nreq' = nreq + 1
    /\ IF f \notin Datasets
       THEN /\ Finish(t, Response(400, "ReadError", None), SESSIONS, heap)
            /\ UNCHANGED <<SESSIONS, minted>>
       ELSE /\ minted < MaxSessions
            /\ minted' = minted + 1
            /\ heap' = [heap EXCEPT ![FreshObj] = Some(NewSession(ReadFile(f)))]
            /\ sess' = [sess EXCEPT ![t] = FreshObj]
            /\ req' = [req EXCEPT ![t] = Some([kind |-> "upload", session_id |-> minted + 1])]
            /\ loc' = [loc EXCEPT ![t] = Some([df |-> ReadFile(f)])]
            /\ resp' = [resp EXCEPT ![t] = None]
            /\ Goto(t, "persist_local")
            /\ UNCHANGED SESSIONS
    /\ UNCHANGED <<deploy, disk, redis, logged, nrestart>>

\* ------------------------------------------------------------------ restart
\* The process is restarted: its local tier is empty again and the requests
\* it was handling are gone.  The durable tier is another service.
Restart(p) ==
    /\ nrestart < MaxRestarts
    /\ nrestart' = nrestart + 1
    /\ LET S == [SESSIONS EXCEPT ![p] = [k \in SessionIds |-> 0]]
           mine == {t \in Threads : procOf[t] = p}
           se == [t \in Threads |-> IF t \in mine THEN 0 ELSE sess[t]]
       IN /\ SESSIONS' = S
          /\ sess' = se
          /\ heap' = Collect(heap, S, se)
          /\ pc' = [t \in Threads |-> IF t \in mine THEN "idle" ELSE pc[t]]
          /\ req' = [t \in Threads |-> IF t \in mine THEN None ELSE req[t]]
          /\ loc' = [t \in Threads |-> IF t \in mine THEN None ELSE loc[t]]
          /\ resp' = [t \in Threads |-> IF t \in mine THEN None ELSE resp[t]]
    /\ UNCHANGED <<deploy, disk, redis, minted, logged, nreq>>

\* ------------------------------------------------------------------ preprocess_data
MethodInputs == {"normalization", "OneHot", "minmax"}
TargetInputs == {"a", "b", "t", "zz"}

\* Lines 143-149: the request is read; get_session comes next.
PreprocessData(t, k, method, target_column) ==
    /\ CanStart(t)
    /\ Known(k)
    /\ Accept(t, [kind |-> "preprocess", session_id |-> k,
                  method |-> method, target_column |-> target_column], "get")
    /\ UNCHANGED <<heap, sess, loc>>

\* The in-place update sess[field] = value of a session dict.
SetField(o, field, value) ==
    [heap EXCEPT ![o] = Some([Obj(o) EXCEPT ![field] = value])]

Step(t, h, label) ==
    /\ heap' = h
    /\ Goto(t, label)
    /\ UNCHANGED <<deploy, disk, SESSIONS, redis, minted, logged, req, sess, resp, budget>>

\* Lines 153-170: the stored frame is analysed, the transformer built, and
\* X, y and the cleaned frame computed, all in locals.
PpAnalyze(t) ==
    /\ pc[t] = "pp_analyze"
    /\ LET df == Obj(sess[t]).dataframe
           target == R(t).target_column
           analyzed == AnalyzeDataframe(df, target)
           n_missing == CountNull(df.rows, df, target)
           rows == IF n_missing > 0 THEN DropNull(df.rows, df, target) ELSE df.rows
       IN IF ~HasColumn(df, target) THEN Fail(t, "InvalidTarget")
          ELSE IF BuildError(analyzed, R(t).method) # ""
          THEN Fail(t, BuildError(analyzed, R(t).method))
          ELSE /\ loc' = [loc EXCEPT ![t] = Some(
                     [config |-> BuildConfig(analyzed, R(t).method),
                      X |-> [data |-> df.data, cols |-> analyzed.feature_columns,
                             rows |-> rows],
                      y |-> [data |-> df.data, col |-> target, rows |-> rows],
                      df |-> [df EXCEPT !.rows = rows],
                      dropped_rows |-> n_missing])]
               /\ Step(t, heap, IF n_missing > 0 THEN "pp_df" ELSE "pp_config")

\* Mutant: the cleaned frame is not stored back in the session.
PpDataframe_NotStored(t) ==
    /\ pc[t] = "pp_df"
    /\ Step(t, heap, "pp_config")
    /\ UNCHANGED loc

\* Line 173: sess["dataframe"] = df
PpDataframe(t) ==
    /\ pc[t] = "pp_df"
    /\ Step(t, SetField(sess[t], "dataframe", L(t).df), "pp_config")
    /\ UNCHANGED loc

\* Mutant: the new configuration comes with an empty models map.
PpConfig_ModelsCleared(t) ==
    /\ pc[t] = "pp_config"
    /\ Step(t, [heap EXCEPT ![sess[t]] = Some(
                   [Obj(sess[t]) EXCEPT !.preprocess_config = Some(L(t).config),
                                        !.models = [m \in ModelNames |-> None]])],
            "pp_pre")
    /\ UNCHANGED loc

\* Line 177: sess["preprocess_config"] = config
PpConfig(t) ==
    /\ pc[t] = "pp_config"
    /\ Step(t, SetField(sess[t], "preprocess_config", Some(L(t).config)), "pp_pre")
    /\ UNCHANGED loc

\* Mutant: the transformer is built but the session does not point to it.
AttachPreprocessor_NoRef(s, config) ==
    [s EXCEPT !.objs = Append(@, Unfitted(config.feature_columns))]

\* The ColumnTransformer build() made (preprocessing.py:89) joins the
\* objects of the session it is stored in.
AttachPreprocessor(s, config) ==
    [s EXCEPT !.objs = Append(@, Unfitted(config.feature_columns)),
              !.preprocessor = Some(Len(s.objs) + 1)]

\* Line 178: sess["preprocessor"] = preprocessor
PpPreprocessor(t) ==
    /\ pc[t] = "pp_pre"
    /\ Step(t, [heap EXCEPT ![sess[t]] = Some(AttachPreprocessor(Obj(sess[t]), L(t).config))],
            "pp_X")
    /\ UNCHANGED loc

\* Line 179: sess["X"] = X
PpX(t) ==
    /\ pc[t] = "pp_X"
    /\ Step(t, SetField(sess[t], "X", Some(L(t).X)), "pp_y")
    /\ UNCHANGED loc

\* Line 180: sess["y"] = y; _persist_session comes next.
PpY(t) ==
    /\ pc[t] = "pp_y"
    /\ Step(t, SetField(sess[t], "y", Some(L(t).y)), "persist_local")
    /\ UNCHANGED loc

\* ------------------------------------------------------------------ train_model
NoHP == HParams(JNull, JNull, JNull, JNull)

TrainInput(model_type, test_size, hp, learning_rate) ==
    [model_type |-> model_type, test_size |-> test_size, hp |-> hp,
     learning_rate |-> learning_rate]

\* The request bodies tried: every model name with two test fractions (in
\* percent) and the defaults, and for the MLP the hidden-layer fields in
\* their several forms, a zero learning rate (in thousandths), and a test
\* fraction of zero.
TrainInputs ==
    {TrainInput(m, ts, NoHP, 1) :
        m \in {"perceptron", "decision_tree", "MLP", "backpropagation", "svm"},
        ts \in {20, 50}}
    \cup {TrainInput("mlp", 20, hp, 1) :
            hp \in {HParams(JStr(<<"6", "4", ",", "3", "2">>), JInt(0), JNull, JNull),
                    HParams(JList(<<JInt(64), JInt(0)>>), JNull, JNull, JNull),
                    HParams(JNull, JInt(2), JInt(0), JNull),
                    HParams(JNull, JInt(2), JNull, JInt(3))}}
    \cup {TrainInput("mlp", 20, NoHP, 0), TrainInput("perceptron", 0, NoHP, 1)}

\* Lines 217-224: the request is read (the model type lower-cased);
\* get_session comes next.
TrainModel(t, k, r) ==
    /\ CanStart(t)
    /\ Known(k)
    /\ Accept(t, [kind |-> "train", session_id |-> k,
                  model_type |-> Lower(r.model_type), test_size |-> r.test_size,
                  hp |-> r.hp, learning_rate |-> r.learning_rate], "get")
    /\ UNCHANGED <<heap, sess, loc>>

\* Mutant: the check for a preprocessor is left out.
TrCheck_Skip(t) ==
    /\ pc[t] = "tr_check"
    /\ Step(t, heap, "tr_X") /\ UNCHANGED loc

\* Lines 229-230: no preprocessor, no training.
TrCheck(t) ==
    /\ pc[t] = "tr_check"
    /\ IF Obj(sess[t]).preprocessor = None
       THEN Fail(t, "NotConfigured")
       ELSE Step(t, heap, "tr_X") /\ UNCHANGED loc

\* Line 232: X = sess["X"] (a KeyError while the key is not there)
TrX(t) ==
    /\ pc[t] = "tr_X"
    /\ IF Obj(sess[t]).X = None
       THEN Fail(t, "KeyError")
       ELSE /\ loc' = [loc EXCEPT ![t] = Some([X |-> Obj(sess[t]).X[1]])]
            /\ Step(t, heap, "tr_y")

\* Line 233: y = sess["y"]
TrY(t) ==
    /\ pc[t] = "tr_y"
    /\ IF Obj(sess[t]).y = None
       THEN Fail(t, "KeyError")
       ELSE /\ loc' = [loc EXCEPT ![t] = Some([X |-> L(t).X, y |-> Obj(sess[t]).y[1]])]
            /\ Step(t, heap, "tr_model")

\* Lines 236-297: the model object for the requested type; for the MLP
\* names the hidden-layer fields are parsed first.
ModelFor(r) ==
    IF r.model_type \in MlpNames
    THEN [kind |-> "multilayer_perceptron",
          hidden_layer_sizes |-> HiddenLayersOf(r.hp).layers,
          learning_rate |-> r.learning_rate]
    ELSE [kind |-> r.model_type, hidden_layer_sizes |-> <<>>, learning_rate |-> 1]

DispatchError(r) ==
    IF r.model_type \notin ModelNames THEN "UnknownModelType"
    ELSE IF r.model_type \in MlpNames /\ ~HiddenLayersOf(r.hp).ok
    THEN "InvalidHyperparameter"
    ELSE ""

\* Lines 234-297: preprocessor = sess["preprocessor"], then the model.
TrModel(t) ==
    /\ pc[t] = "tr_model"
    /\ IF DispatchError(R(t)) # ""
       THEN Fail(t, DispatchError(R(t)))
       ELSE /\ loc' = [loc EXCEPT ![t] = Some(
                  [X |-> L(t).X, y |-> L(t).y,
                   preprocessor |-> Obj(sess[t]).preprocessor[1],
                   model |-> ModelFor(R(t))])]
            /\ Step(t, heap, "tr_fit")

\* Pipeline(steps=[("preprocess", preprocessor), ("clf", estimator)]): the
\* pipeline holds the preprocessor object it was given, not a copy.
BuildPipeline(preprocessor, model, train_rows) ==
    [preprocess |-> preprocessor,
     clf |-> [kind |-> model.kind,
              hidden_layer_sizes |-> model.hidden_layer_sizes,
              rows |-> train_rows]]

\* TrainResult: the reported type, the test fraction, and the rows of the
\* test partition the metrics were computed on.
TrainResult(model, test_size, test_rows) ==
    [model_type |-> ReportedType(model.kind), test_size |-> test_size,
     test_rows |-> test_rows]

\* pipeline.fit(X_train, y_train), first step: the preprocessor object is
\* fitted where it is.
FitPreprocessor(s, preprocessor, train_rows) ==
    [s EXCEPT !.objs[preprocessor] = FittedOn(@, train_rows)]

\* train_and_evaluate (classifiers.py:93-114): split, fit, predict, metrics.
TrFit(t) ==
    /\ pc[t] = "tr_fit"
    /\ LET X == L(t).X
           labels == Labels(L(t).y)
           pre == L(t).preprocessor
           test == TestPositions(labels, R(t).test_size)
           train_rows == {X.rows[i] : i \in DOMAIN labels \ test}
           test_rows == {X.rows[i] : i \in test}
           fitted == [heap EXCEPT ![sess[t]] =
                         Some(FitPreprocessor(Obj(sess[t]), pre, train_rows))]
       IN IF SplitFails(Len(X.rows), labels, R(t).test_size)
          THEN Fail(t, "DataError")
          ELSE IF ~(SeqToSet(Obj(sess[t]).objs[pre].cols) \subseteq SeqToSet(X.cols))
          THEN Fail(t, "FitError")
          ELSE IF EstimatorFails(L(t).model, {labels[i] : i \in DOMAIN labels \ test})
          THEN FailWith(t, "FitError", fitted)
          ELSE /\ loc' = [loc EXCEPT ![t] = Some(
                     [pipeline |-> BuildPipeline(pre, L(t).model, train_rows),
                      result |-> TrainResult(L(t).model, R(t).test_size, test_rows)])]
               /\ Step(t, fitted, "tr_store")

\* Mutant: the models map is replaced by one that holds the new entry only.
StoreModel_Alone(s, model_type, pipeline, result) ==
    [s EXCEPT !.models = [m \in ModelNames |->
        IF m = model_type THEN Some([pipeline |-> pipeline, metrics |-> result])
        ELSE None]]

\* sess["models"][model_type] = {"pipeline": pipeline, "metrics": ...}
StoreModel(s, model_type, pipeline, result) ==
    [s EXCEPT !.models[model_type] = Some([pipeline |-> pipeline, metrics |-> result])]

\* Line 304; _persist_session comes next.
TrStore(t) ==
    /\ pc[t] = "tr_store"
    /\ Step(t, [heap EXCEPT ![sess[t]] =
                   Some(StoreModel(Obj(sess[t]), R(t).model_type,
                                   L(t).pipeline, L(t).result))],
            "persist_local")
    /\ UNCHANGED loc

\* ------------------------------------------------------------------ get_confusion_matrix
\* The model_type values a metrics or save request can carry.
TypeInputs == {"perceptron", "MLP", "multilayer_perceptron", "svm"}
FormatInputs == {"json", "html"}

\* Mutant: a type without an entry is served some other type's entry.
ModelInfo_OrAnother(s, model_type) ==
    IF model_type \in ModelNames /\ s.models[model_type] # None THEN s.models[model_type]
    ELSE IF \E m \in ModelNames : s.models[m] # None
    THEN s.models[CHOOSE m \in ModelNames : s.models[m] # None]
    ELSE None

\* dict.get(model_type) on the models map: None for a key it does not hold.
ModelInfo(s, model_type) ==
    IF model_type \in ModelNames THEN s.models[model_type] ELSE None

\* Lines 328-333: the query parameters (0 and "" stand for a parameter that
\* is missing or empty); get_session comes next.
GetConfusionMatrix(t, k, model_type, fmt) ==
    /\ CanStart(t)
    /\ k # 0 => Known(k)
    /\ IF k = 0 \/ Lower(model_type) = ""
       THEN /\ nreq' = nreq + 1
            /\ Finish(t, Response(400, "MissingParameter", None), SESSIONS, heap)
            /\ UNCHANGED <<deploy, disk, SESSIONS, redis, minted, logged, nrestart>>
       ELSE /\ Accept(t, [kind |-> "metrics", session_id |-> k,
                          model_type |-> Lower(model_type), format |-> fmt], "get")
            /\ UNCHANGED <<heap, sess, loc>>

\* Lines 372-377: the response, for format=html the table alone (the test
\* rows stand for the matrix counted on them).
MetricsBody(model_type, metrics, fmt) ==
    IF fmt = "html"
    THEN [confusion_matrix_html |-> metrics.test_rows]
    ELSE [model_type |-> model_type, metrics |-> metrics,
          confusion_matrix |-> metrics.test_rows]

\* Lines 337-377: no entry for the type is a 400; otherwise the stored
\* metrics are returned.
CmLookup(t) ==
    /\ pc[t] = "cm_lookup"
    /\ LET model_info == ModelInfo(Obj(sess[t]), R(t).model_type)
       IN IF model_info = None
          THEN Fail(t, "NoTrainedModel")
          ELSE /\ Finish(t, Response(200, "", MetricsBody(R(t).model_type,
                                 model_info[1].metrics, R(t).format)), SESSIONS, heap)
               /\ UNCHANGED <<deploy, disk, SESSIONS, redis, minted, logged, budget>>

\* ------------------------------------------------------------------ save_model
\* str.isalnum() on one character.
Letters == {"a", "Z", "\\u00e9"}
IsAlnum(c) == c \in Letters \/ IsDigit(c)

\* Mutant: the name is used as it came.
SafeName_Unfiltered(model_name) == model_name

\* Line 412: "".join(c for c in model_name if c.isalnum() or c in ("_", "-"))
SafeName(model_name) ==
    SelectSeq(model_name, LAMBDA c : IsAlnum(c) \/ c \in {"_", "-"})

\* Line 413: os.path.join("saved_models", f"{safe_name}.joblib")
PathJoin(safe_name) == <<"saved_models", "/">> \o safe_name \o <<".", "joblib">>

\* The components of a path, split at "/".
RECURSIVE SplitPath(_, _)
SplitPath(path, cur) ==
    IF path = <<>> THEN <<cur>>
    ELSE IF Head(path) = "/" THEN <<cur>> \o SplitPath(Tail(path), <<>>)
    ELSE SplitPath(Tail(path), Append(cur, Head(path)))

\* The directory the file system resolves a relative path into: empty and
\* "." components stay where they are, ".." goes up (above the working
\* directory too), the last component is the file.
RECURSIVE Walk(_, _)
Walk(components, dir) ==
    IF Len(components) <= 1 THEN dir
    ELSE LET c == Head(components)
         IN Walk(Tail(components),
                 IF c = <<>> \/ c = <<".">> THEN dir
                 ELSE IF c = <<".", ".">>
                 THEN (IF dir # <<>> /\ dir[Len(dir)] # <<".", ".">>
                       THEN SubSeq(dir, 1, Len(dir) - 1) ELSE Append(dir, c))
                 ELSE Append(dir, c))

DirOf(path) == Walk(SplitPath(path, <<>>), <<>>)

FileOf(path) == LET cs == SplitPath(path, <<>>) IN cs[Len(cs)]

\* The model_name values a save request can carry: strings over letters,
\* digits, the two kept marks, and the characters of a path.
NameChars == {"a", "Z", "7", "\\u00e9", "_", "-", ".", "/", "\\", " "}
NameInputs == {JStr(<<"a", "7">>), JStr(<<".", ".", "/", "a">>), JInt(5)}

\* Lines 396-402: the request is read; get_session comes next.
SaveModel(t, k, model_type, model_name) ==
    /\ CanStart(t)
    /\ Known(k)
    /\ Accept(t, [kind |-> "save", session_id |-> k, model_type |-> Lower(model_type),
                  model_name |-> model_name], "get")
    /\ UNCHANGED <<heap, sess, loc>>

\* Lines 406-411: no entry for the type is a 400.
SvLookup(t) ==
    /\ pc[t] = "sv_lookup"
    /\ LET model_info == ModelInfo(Obj(sess[t]), R(t).model_type)
       IN IF model_info = None
          THEN Fail(t, "NoTrainedModel")
          ELSE /\ loc' = [loc EXCEPT ![t] = Some([pipeline |-> model_info[1].pipeline])]
               /\ Step(t, heap, "sv_dump")

\* What joblib.dump pickles: the pipeline with the transformer object its
\* first step refers to.
Dumped(s, pipeline) == [clf |-> pipeline.clf, preprocess |-> s.objs[pipeline.preprocess]]

\* dump(pipeline, path): the file at that path is created or replaced.
WriteFile(files, path, content) ==
    {f \in files : f.path # path} \cup {[path |-> path, content |-> content]}

\* Lines 412-419: a name that cannot be iterated, or a file that cannot be
\* written, is a 400; otherwise the pipeline is dumped and the path returned.
SvDump(t) ==
    /\ pc[t] = "sv_dump"
    /\ IF R(t).model_name.tag # "str"
       THEN Fail(t, "SaveError")
       ELSE \E written \in BOOLEAN :
               IF ~written
               THEN Fail(t, "SaveError")
               ELSE LET path == PathJoin(SafeName(R(t).model_name.chars))
                    IN /\ saved_models' = WriteFile(saved_models, path,
                                              Dumped(Obj(sess[t]), L(t).pipeline))
                       /\ Finish(t, Response(200, "", [path |-> path]), SESSIONS, heap)
                       /\ UNCHANGED <<deploy, SESSIONS, redis, minted, logged, budget>>

\* ------------------------------------------------------------------ request bodies
\* A JSON body as request.get_json returns it: an object with the fields
\* the handlers read (Absent: the key is not there), or some other value.
Absent == [tag |-> "absent"]
Body(session_id, model_type, test_size, model_name) ==
    [tag |-> "body", session_id |-> session_id, model_type |-> model_type,
     test_size |-> test_size, model_name |-> model_name]

\* float(s) on a string: digits with at most one point, blanks around them.
FloatParses(s) ==
    LET body == Strip(s)
        points == {i \in DOMAIN body : body[i] = "."}
    IN /\ \A i \in DOMAIN body : IsDigit(body[i]) \/ body[i] = "."
       /\ Cardinality(points) <= 1
       /\ Cardinality(points) < Len(body)

\* float(data.get("test_size", 0.2)), line 224: the values it raises on.
FloatFails(x) ==
    \/ x.tag \in {"null", "list", "obj"}
    \/ x.tag = "str" /\ ~FloatParses(x.chars)

\* How the reading of a body ends before get_session is called: "" when
\* it goes through, MissingField for the KeyError the handlers catch,
\* Unhandled for an exception raised outside every try or caught by none
\* (a body that is no object, a model_type without .lower(), a test_size
\* float() rejects).
ReadError(kind, body) ==
    IF body.tag # "body" THEN "Unhandled"
    ELSE IF body.session_id = Absent THEN "MissingField"
    ELSE IF body.model_type = Absent THEN "MissingField"
    ELSE IF kind # "preprocess" /\ body.model_type.tag # "str" THEN "Unhandled"
    ELSE IF kind # "train" /\ body.model_name = Absent THEN "MissingField"
    ELSE IF kind = "train" /\ FloatFails(body.test_size) THEN "Unhandled"
    ELSE ""

\* The bodies tried; for a preprocessing request model_type and model_name
\* stand for its method and target_column.
BodyInputs ==
    {JList(<<>>)}
    \cup {Body(JInt(1), m, ts, n) :
            m \in {Absent, JStr(<<"m", "l", "p">>), JInt(3), JNull},
            ts \in {Absent, JInt(1), JStr(<<"0", ".", "3">>), JStr(<<"x">>), JNull},
            n \in {Absent, JStr(<<"a">>)}}
    \cup {Body(Absent, JStr(<<"m", "l", "p">>), Absent, JStr(<<"a">>))}

\* The status of the response Flask sends when the handler raised.
StatusOf(error) == IF error = "Unhandled" THEN 500 ELSE 400

\* Lines 143-149, 217-224, 396-402: a request whose body does not get as far
\* as get_session.
Rejected(t, kind, body) ==
    /\ CanStart(t)
    /\ ReadError(kind, body) # ""
    /\ nreq' = nreq + 1
    /\ Finish(t, Response(StatusOf(ReadError(kind, body)), ReadError(kind, body), None),
              SESSIONS, heap)
    /\ UNCHANGED <<deploy, disk, SESSIONS, redis, minted, logged, nrestart>>

\* ------------------------------------------------------------------ specification
Boot ==
    /\ SESSIONS = [p \in Procs |-> [k \in SessionIds |-> 0]]
    /\ heap = [o \in ObjIds |-> None]
    /\ redis = [k \in SessionIds |-> None]
    /\ minted = 0
    /\ logged = 0
    /\ saved_models = {}
    /\ pc = [t \in Threads |-> "idle"]
    /\ req = [t \in Threads |-> None]
    /\ sess = [t \in Threads |-> 0]
    /\ loc = [t \in Threads |-> None]
    /\ resp = [t \in Threads |-> None]
    /\ nreq = 0
    /\ nrestart = 0

\* One process, with or without the durable tier, threaded or not.
Init ==
    /\ Boot
    /\ USE_REDIS \in BOOLEAN
    /\ threaded \in BOOLEAN
    /\ procOf = [t \in Threads |-> 1]

Next ==
    \/ \E t \in Threads, f \in Files : UploadDataset(t, f)
    \/ \E t \in Threads, k \in SessionIds, m \in MethodInputs, c \in TargetInputs :
          PreprocessData(t, k, m, c)
    \/ \E t \in Threads, k \in SessionIds, r \in TrainInputs : TrainModel(t, k, r)
    \/ \E t \in Threads : GetSession(t)
    \/ \E t \in Threads : GetLoads(t)
    \/ \E t \in Threads : PpAnalyze(t)
    \/ \E t \in Threads : PpDataframe(t)
    \/ \E t \in Threads : PpConfig(t)
    \/ \E t \in Threads : PpPreprocessor(t)
    \/ \E t \in Threads : PpX(t)
    \/ \E t \in Threads : PpY(t)
    \/ \E t \in Threads : TrCheck(t)
    \/ \E t \in Threads : TrX(t)
    \/ \E t \in Threads : TrY(t)
    \/ \E t \in Threads : TrModel(t)
    \/ \E t \in Threads : TrFit(t)
    \/ \E t \in Threads : TrStore(t)
    \/ \E t \in Threads : PersistLocal(t)
    \/ \E t \in Threads : PersistDurable(t)
    \/ \E p \in {procOf[t] : t \in Threads} : Restart(p)

Spec == Init /\ [][Next]_vars

InitSeq == Init /\ ~threaded
SpecSeq == InitSeq /\ [][Next]_vars

\* Every handler, on a server that handles one request at a time.
NextAll ==
    \/ Next
    \/ \E t \in Threads, k \in SessionIds \cup {0}, m \in TypeInputs \cup {""},
          f \in FormatInputs : GetConfusionMatrix(t, k, m, f)
    \/ \E t \in Threads : CmLookup(t)
    \/ \E t \in Threads, k \in SessionIds, m \in TypeInputs, n \in NameInputs :
          SaveModel(t, k, m, n)
    \/ \E t \in Threads : SvLookup(t)
    \/ \E t \in Threads : SvDump(t)
    \/ \E t \in Threads, kind \in {"preprocess", "train", "save"}, b \in BodyInputs :
          Rejected(t, kind, b)

SpecAll == InitSeq /\ [][NextAll]_vars

\* ------------------------------------------------------------------ claims: session store
\* The step of thread t that ends its request with a response.
Returns(t) == pc[t] # "idle" /\ pc'[t] = "idle" /\ resp'[t] # None

ErrorOf(t) == resp'[t][1].error

LocalEntry(t) == SESSIONS[procOf[t]][R(t).session_id]

\* C1: a put writes the local tier (line 73); a durable write that succeeds
\* leaves a snapshot of the session under the id; one that fails changes
\* nothing in the durable tier, the request still answers 200, and on a
\* server that handles one request at a time the local tier still holds the
\* session that was put.
C1_PutWritesThrough ==
    [][\A t \in Threads :
          /\ pc[t] = "persist_local" /\ pc'[t] # "persist_local" /\ nrestart' = nrestart
                => /\ SESSIONS'[procOf[t]][R(t).session_id] = sess[t]
                   /\ redis' = redis
                   /\ ~USE_REDIS => Returns(t) /\ resp'[t][1].status = 200
          /\ pc[t] = "persist_durable" /\ Returns(t)
                => /\ resp'[t][1].status = 200
                   /\ SESSIONS' = SESSIONS
                   /\ ~threaded => LocalEntry(t) = sess[t]
                   /\ \A k \in SessionIds : k # R(t).session_id => redis'[k] = redis[k]
                   /\ IF logged' = logged
                      THEN redis'[R(t).session_id] = Some(Obj(sess[t]))
                      ELSE redis' = redis]_vars

\* C1 witness: a write failure was swallowed; the request is answered, the
\* local tier holds the session and the durable tier holds something else.
C1_Witness ==
    /\ logged > 0 /\ ~threaded
    /\ pc[1] = "idle" /\ resp[1] # None /\ resp[1][1].status = 200
    /\ SESSIONS[1][1] # 0
    /\ redis[1] # None
    /\ redis[1] # Some(Obj(SESSIONS[1][1]))

\* C2: get_session returns the local entry when there is one, and then
\* reads nothing from the durable tier; on a local miss, an entry read from
\* the durable tier that deserializes is returned and is the local entry by
\* the time get_session returns; an id in neither tier is NotFound and the
\* local tier is left as it was.
C2_GetReadsThrough ==
    [][\A t \in Threads :
          /\ pc[t] = "get" /\ pc'[t] # "get" /\ nrestart' = nrestart
                => /\ SESSIONS' = SESSIONS
                   /\ LocalEntry(t) # 0
                         => sess'[t] = LocalEntry(t) /\ pc'[t] = AfterGet(R(t).kind)
                   /\ pc'[t] = "get_loads"
                         => LocalEntry(t) = 0 /\ loc'[t] = Some([raw |-> redis[R(t).session_id]])
                   /\ LocalEntry(t) = 0 /\ ~USE_REDIS
                         => Returns(t) /\ ErrorOf(t) = "NotFound"
          /\ pc[t] = "get_loads" /\ pc'[t] # "get_loads" /\ nrestart' = nrestart
                => IF pc'[t] = "idle"
                   THEN Returns(t) /\ ErrorOf(t) = "NotFound" /\ SESSIONS' = SESSIONS
                   ELSE /\ L(t).raw # None
                        /\ sess'[t] # 0
                        /\ SESSIONS'[procOf[t]][R(t).session_id] = sess'[t]
                        /\ heap'[sess'[t]] = L(t).raw
          /\ pc[t] = "get_loads" /\ L(t).raw = None /\ pc'[t] # "get_loads"
                => pc'[t] = "idle"]_vars

\* C2 witness: after a restart, a request got its session back from the
\* durable tier: the local tier holds a copy equal to the snapshot.
C2_Witness ==
    /\ nrestart > 0
    /\ pc[1] \in {"pp_analyze", "tr_check"}
    /\ sess[1] # 0 /\ SESSIONS[1][1] = sess[1]
    /\ heap[sess[1]] = redis[1]

\* C3 (as claimed): with the durable tier configured and no write failure,
\* between the requests of a server that handles one at a time, the durable
\* snapshot of every session equals the local-tier session.
C3_SnapshotEqualsLocal ==
    (USE_REDIS /\ logged = 0 /\ ~threaded /\ \A t \in Threads : pc[t] = "idle")
        => \A k \in SessionIds : SESSIONS[1][k] # 0 => redis[k] = Some(Obj(SESSIONS[1][k]))

\* C4 (as claimed): a get_session that ends the request after a local miss
\* reports NotFound, whatever the durable tier did, and leaves the local
\* tier unchanged.
C4_ReadFailureIsNotFound ==
    [][\A t \in Threads :
          (pc[t] \in {"get", "get_loads"} /\ Returns(t))
              => ErrorOf(t) = "NotFound" /\ SESSIONS' = SESSIONS]_vars

\* ------------------------------------------------------------------ claims: session invariants
Idle == \A t \in Threads : pc[t] = "idle"

LiveObjs == {o \in ObjIds : heap[o] # None}

\* X, y and preprocessor all absent, or all present with as many rows in X
\* as in y and X's columns those of the session's preprocess_config.
Consistent(s) ==
    \/ s.X = None /\ s.y = None /\ s.preprocessor = None
    \/ /\ s.X # None /\ s.y # None /\ s.preprocessor # None
       /\ s.preprocess_config # None
       /\ Len(s.X[1].rows) = Len(s.y[1].rows)
       /\ s.X[1].cols = s.preprocess_config[1].feature_columns

\* C5 (as claimed): in every state a request can observe (on a threaded
\* server any state, otherwise the states between requests) every session
\* is consistent.
C5_ConsistentWheneverObservable ==
    (threaded \/ Idle) => \A o \in LiveObjs : Consistent(Obj(o))

\* C5 (amended): on a server that handles one request at a time, between
\* requests every session of the local tier, and at all times every durable
\* snapshot, is consistent.
C5_ConsistentBetweenRequests ==
    ~threaded =>
        /\ Idle => \A o \in LiveObjs : Consistent(Obj(o))
        /\ \A k \in SessionIds : redis[k] # None => Consistent(redis[k][1])

\* C5 witness: a preprocessed session whose preprocessing dropped a row,
\* between requests, in the local tier and in the durable tier.
C5_Witness ==
    /\ ~threaded /\ Idle
    /\ SESSIONS[1][1] # 0 /\ Obj(SESSIONS[1][1]).X # None
    /\ Len(Obj(SESSIONS[1][1]).X[1].rows) < Len(ReadFile("tab").rows)
    /\ redis[1] = Some(Obj(SESSIONS[1][1]))

\* C6 (as claimed): the models map holds at most one result for the MLP,
\* whichever of its names the training calls used.
C6_OneResultPerType ==
    \A o \in LiveObjs : Cardinality({m \in MlpNames : Obj(o).models[m] # None}) <= 1

\* C7: a training call that finds no preprocessor in its session answers
\* 400 NotConfigured at once, whatever model type it names: nothing is
\* split or fitted and no session changes.
C7_NotConfigured ==
    [][\A t \in Threads :
          (pc[t] = "tr_check" /\ Obj(sess[t]).preprocessor = None
               /\ pc'[t] # "tr_check" /\ nrestart' = nrestart)
              => /\ Returns(t)
                 /\ resp'[t][1].status = 400 /\ ErrorOf(t) = "NotConfigured"
                 /\ \A o \in LiveObjs \ {sess[t]} : heap'[o] = heap[o]
                 /\ heap'[sess[t]] \in {heap[sess[t]], None}
                 /\ redis' = redis]_vars

\* C7 witness: a training call was refused for want of a preprocessor, and
\* the session still has no model and no preprocessor.
C7_Witness ==
    /\ resp[1] # None /\ resp[1][1].error = "NotConfigured"
    /\ SESSIONS[1][1] # 0
    /\ Obj(SESSIONS[1][1]).preprocessor = None
    /\ \A m \in ModelNames : Obj(SESSIONS[1][1]).models[m] = None

\* A hidden-layer field that holds an integer which is not positive.
NonPositive(x) == x.tag = "int" /\ x.v <= 0

\* C9 (as claimed, for the fields the parser consults when hidden_layers is
\* absent): an MLP request with num_layers and neurons both in the body and
\* a non-positive integer in one of them never gets as far as the fit.
C9_NonPositiveNeverFits ==
    \A t \in Threads :
        (pc[t] \in {"tr_fit", "tr_store"} /\ R(t).model_type \in MlpNames
             /\ R(t).hp.hidden_layers = JNull
             /\ R(t).hp.num_layers # JNull /\ R(t).hp.neurons # JNull)
            => ~NonPositive(R(t).hp.num_layers) /\ ~NonPositive(R(t).hp.neurons)

\* C10 (as claimed): between requests, the preprocessing step of every stored pipeline holds
\* statistics learned from the training partition of the call that stored
\* it, and from no row of that call's test partition.
C10_NoLeakage ==
    \A o \in LiveObjs : \A m \in ModelNames :
        (Idle /\ Obj(o).models[m] # None) =>
            LET e == Obj(o).models[m][1]
                pre == Obj(o).objs[e.pipeline.preprocess]
            IN /\ pre.fitted
               /\ pre.rows = e.pipeline.clf.rows
               /\ pre.rows \cap e.metrics.test_rows = {}

\* ------------------------------------------------------------------ hidden-layer inputs
\* The session a training request finds after upload of "tab" and a
\* preprocessing call (normalization, target t): the handlers' updates,
\* applied in order.
PreprocessedSession ==
    LET df == ReadFile("tab")
        rows == DropNull(df.rows, df, "t")
        cfg == BuildConfig(AnalyzeDataframe(df, "t"), "normalization")
        s == [NewSession(df) EXCEPT !.dataframe = [df EXCEPT !.rows = rows],
                                    !.preprocess_config = Some(cfg)]
    IN [AttachPreprocessor(s, cfg) EXCEPT
           !.X = Some([data |-> df.data, cols |-> cfg.feature_columns, rows |-> rows]),
           !.y = Some([data |-> df.data, col |-> "t", rows |-> rows])]

RECURSIVE SeqsUpTo(_, _)
SeqsUpTo(S, n) ==
    IF n = 0 THEN {<<>>}
    ELSE LET shorter == SeqsUpTo(S, n - 1)
         IN shorter \cup {Append(q, x) : q \in shorter, x \in S}

\* str(n) for n > 0
RECURSIVE Decimal(_)
Decimal(n) ==
    IF n < 10 THEN <<Digits[n + 1]>> ELSE Append(Decimal(n \div 10), Digits[(n % 10) + 1])

RECURSIVE Joined(_, _)
Joined(widths, sep) ==
    IF Len(widths) = 1 THEN Decimal(widths[1])
    ELSE Decimal(widths[1]) \o sep \o Joined(Tail(widths), sep)

Chars == {"6", "4", "0", "-", ",", ";", " ", "x"}
Widths == {1, 32, 64}
WidthSeqs == SeqsUpTo(Widths, 2) \ {<<>>}
Separators == {<<",">>, <<";">>, <<" ">>, <<",", " ">>, <<" ", ";", " ">>}
Margins == {<<>>, <<" ">>, <<",">>, <<";", " ">>}

\* A list of widths written out as a string, with separators around it.
Written(widths, lead, sep, trail) == lead \o Joined(widths, sep) \o trail

Scalars == {JInt(-1), JInt(0), JInt(32), JInt(64), JBool(TRUE), JBool(FALSE),
            JFloat(2), JStr(<<"6">>), JStr(<<"x">>), JNull}

HiddenInputs ==
    {JNull, JObj, JFloat(2)}
    \cup {x \in Scalars : x.tag \in {"int", "bool"}}
    \cup {JStr(c) : c \in SeqsUpTo(Chars, MaxStrLen)}
    \cup {JStr(Written(w, l, p, r)) : w \in WidthSeqs, l \in Margins,
                                     p \in Separators, r \in Margins}
    \cup {JList(xs) : xs \in SeqsUpTo(Scalars, 2)}
    \cup {JList(w) : w \in {[i \in DOMAIN v |-> JInt(v[i])] : v \in WidthSeqs}}

CountInputs == {JNull, JInt(-1), JInt(0), JInt(2), JInt(3), JBool(TRUE),
                JStr(<<"4">>), JStr(<<"x">>), JStr(<<>>)}

\* The hyperparameter fields tried: every hidden_layers value with the
\* pair absent or malformed, and every pair with hidden_layers absent.
HParamInputs ==
    {HParams(h, n, n, JNull) : h \in HiddenInputs, n \in {JNull, JInt(-1)}}
    \cup {HParams(JNull, n, w, v) : n \in CountInputs, w \in CountInputs,
                                    v \in {JNull, JInt(0), JInt(3)}}

\* An MLP training request has just been accepted (line 224) for a session
\* that was uploaded and preprocessed.
InitParse ==
    /\ USE_REDIS = FALSE
    /\ threaded = FALSE
    /\ procOf = [t \in Threads |-> 1]
    /\ SESSIONS = [p \in Procs |-> [k \in SessionIds |-> IF p = 1 /\ k = 1 THEN 1 ELSE 0]]
    /\ heap = [o \in ObjIds |-> IF o = 1 THEN Some(PreprocessedSession) ELSE None]
    /\ redis = [k \in SessionIds |-> None]
    /\ minted = 1
    /\ logged = 0
    /\ saved_models = {}
    /\ pc = [t \in Threads |-> IF t = 1 THEN "get" ELSE "idle"]
    /\ \E m \in MlpNames, hp \in HParamInputs :
          req = [t \in Threads |-> IF t = 1
                    THEN Some([kind |-> "train", session_id |-> 1, model_type |-> m,
                               test_size |-> 20, hp |-> hp, learning_rate |-> 1])
                    ELSE None]
    /\ sess = [t \in Threads |-> 0]
    /\ loc = [t \in Threads |-> None]
    /\ resp = [t \in Threads |-> None]
    /\ nreq = MaxRequests
    /\ nrestart = MaxRestarts

\* The request runs to its response.
NextParse ==
    \/ \E t \in Threads : GetSession(t)
    \/ \E t \in Threads : TrCheck(t)
    \/ \E t \in Threads : TrX(t)
    \/ \E t \in Threads : TrY(t)
    \/ \E t \in Threads : TrModel(t)
    \/ \E t \in Threads : TrFit(t)
    \/ \E t \in Threads : TrStore(t)
    \/ \E t \in Threads : PersistLocal(t)

SpecParse == InitParse /\ [][NextParse]_vars

\* ------------------------------------------------------------------ claims: hidden layers
\* The step that parses the hidden-layer fields of an MLP request.
Parses(t) ==
    /\ pc[t] = "tr_model" /\ pc'[t] # "tr_model" /\ nrestart' = nrestart
    /\ R(t).model_type \in MlpNames

\* After that step: the MLP was built, with these hidden-layer sizes.
BuiltWith(t, sizes) ==
    pc'[t] = "tr_fit" /\ loc'[t][1].model.hidden_layer_sizes = sizes

Given(x) == x # JNull

\* C8: (1) hidden_layers given as a list of positive integers, as those
\* integers written in a string with any of the separators between and
\* around them, or as one positive integer, gives exactly those widths,
\* whatever num_layers and neurons hold; (2) with hidden_layers absent and
\* num_layers = n, neurons = w positive integers, w repeated n times; (3)
\* with hidden_layers absent and num_layers or neurons (under either of its
\* keys) absent, (100,).  None of these requests is refused.
C8_ParsePriority ==
    [][\A t \in Threads : Parses(t) =>
          LET hp == R(t).hp IN
          /\ \A w \in WidthSeqs :
                (\/ hp.hidden_layers = JList([i \in DOMAIN w |-> JInt(w[i])])
                 \/ \E l \in Margins, p \in Separators, r \in Margins :
                       hp.hidden_layers = JStr(Written(w, l, p, r))
                 \/ Len(w) = 1 /\ hp.hidden_layers = JInt(w[1]))
                    => BuiltWith(t, w)
          /\ \A n \in 1..3, w \in 1..3 :
                (/\ hp.hidden_layers = JNull
                 /\ hp.num_layers = JInt(n) /\ hp.neurons = JInt(w))
                    => BuiltWith(t, [i \in 1..n |-> w])
          /\ (/\ hp.hidden_layers = JNull
              /\ \/ ~Given(hp.num_layers)
                 \/ ~Given(hp.neurons) /\ ~Given(hp.nuearals))
                    => BuiltWith(t, <<100>>)]_vars

\* C8 witness: the string "64,32" was parsed, with num_layers and neurons
\* set to -1 beside it, and the MLP built with (64, 32).
C8_Witness ==
    /\ pc[1] = "tr_fit"
    /\ R(1).hp.hidden_layers = JStr(<<"6", "4", ",", "3", "2">>)
    /\ R(1).hp.num_layers = JInt(-1)
    /\ L(1).model.hidden_layer_sizes = <<64, 32>>

\* ------------------------------------------------------------------ claims: requests
\* C11 (as claimed): every response is a success or a structured client
\* error; no request ends in the 500 of an exception no handler caught.
C11_NoUnhandledFault ==
    \A t \in Threads : resp[t] # None => resp[t][1].status \in {200, 400}

\* ------------------------------------------------------------------ claims: concurrency
\* A threaded server whose one session was uploaded and preprocessed by
\* earlier requests, with two requests still to come.
InitRace ==
    /\ USE_REDIS \in BOOLEAN
    /\ threaded = TRUE
    /\ procOf = [t \in Threads |-> 1]
    /\ SESSIONS = [p \in Procs |-> [k \in SessionIds |-> IF p = 1 /\ k = 1 THEN 1 ELSE 0]]
    /\ heap = [o \in ObjIds |-> IF o = 1 THEN Some(PreprocessedSession) ELSE None]
    /\ redis = [k \in SessionIds |->
                   IF USE_REDIS /\ k = 1 THEN Some(PreprocessedSession) ELSE None]
    /\ minted = 1
    /\ logged = 0
    /\ saved_models = {}
    /\ pc = [t \in Threads |-> "idle"]
    /\ req = [t \in Threads |-> None]
    /\ sess = [t \in Threads |-> 0]
    /\ loc = [t \in Threads |-> None]
    /\ resp = [t \in Threads |-> None]
    /\ nreq = MaxThreadedRequests - 2
    /\ nrestart = 0

SpecRace == InitRace /\ [][Next]_vars

\* Thread t makes its put of a training result while thread u, training
\* another model type on the same session, has made its put already and
\* has not returned yet.
PutsLast(t, u) ==
    /\ t # u
    /\ pc[t] = "persist_local" /\ pc'[t] # "persist_local" /\ nrestart' = nrestart
    /\ pc[u] = "persist_durable"
    /\ R(t).kind = "train" /\ R(u).kind = "train"
    /\ R(t).session_id = R(u).session_id
    /\ R(t).model_type # R(u).model_type

\* The session the local tier holds under the id of t's request once the
\* step is done.
StoredAfter(t) == heap'[SESSIONS'[procOf[t]][R(t).session_id]][1]

\* C12 (as claimed): of two concurrent trainings of different model types,
\* the session the last put leaves in the store has the entry of the
\* request that put last and not the entry of the other.
C12_LastPutWins ==
    [][\A t, u \in Threads :
          PutsLast(t, u) => /\ StoredAfter(t).models[R(t).model_type] # None
                            /\ StoredAfter(t).models[R(u).model_type] = None]_vars

\* C12 (amended): the session the last put leaves in the store has the
\* entry of the request that put last; it has the other request's entry
\* too exactly when both requests worked on one session object (both found
\* it in the local tier), and lacks it when each had loaded its own copy
\* from the durable tier.
C12_SharedObjectKeepsBoth ==
    [][\A t, u \in Threads :
          PutsLast(t, u) => /\ StoredAfter(t).models[R(t).model_type] # None
                            /\ StoredAfter(t).models[R(u).model_type] # None
                                   <=> sess[t] = sess[u]]_vars

\* C12 witness: two trainings of different types ran concurrently on one
\* session object, both puts are made, and the stored session has both
\* entries.
C12_Witness ==
    /\ pc[1] = "persist_durable" /\ pc[2] = "persist_durable"
    /\ R(1).kind = "train" /\ R(2).kind = "train"
    /\ R(1).model_type # R(2).model_type
    /\ sess[1] = sess[2] /\ SESSIONS[1][1] = sess[1]
    /\ Obj(sess[1]).models[R(1).model_type] # None
    /\ Obj(sess[1]).models[R(2).model_type] # None

\* Two processes that share the durable tier, each handling one request at
\* a time.  The session was uploaded through the first; the second has
\* served a request on it since and holds its own copy.
InitTwo ==
    /\ USE_REDIS = TRUE
    /\ threaded = FALSE
    /\ procOf = [t \in Threads |-> t]
    /\ SESSIONS = [p \in Procs |-> [k \in SessionIds |-> IF k = 1 THEN p ELSE 0]]
    /\ heap = [o \in ObjIds |-> IF o \in Procs THEN Some(NewSession(ReadFile("tab")))
                                ELSE None]
    /\ redis = [k \in SessionIds |->
                   IF k = 1 THEN Some(NewSession(ReadFile("tab"))) ELSE None]
    /\ minted = 1
    /\ logged = 0
    /\ saved_models = {}
    /\ pc = [t \in Threads |-> "idle"]
    /\ req = [t \in Threads |-> None]
    /\ sess = [t \in Threads |-> 0]
    /\ loc = [t \in Threads |-> None]
    /\ resp = [t \in Threads |-> None]
    /\ nreq = 0
    /\ nrestart = 0

\* Preprocessing and training requests to either process, and restarts of
\* either.
NextTwo ==
    \/ \E t \in Threads, k \in SessionIds, c \in {"t", "b"} :
          PreprocessData(t, k, "normalization", c)
    \/ \E t \in Threads, k \in SessionIds, m \in {"perceptron", "decision_tree"} :
          TrainModel(t, k, TrainInput(m, 20, NoHP, 1))
    \/ \E t \in Threads : GetSession(t)
    \/ \E t \in Threads : GetLoads(t)
    \/ \E t \in Threads : PpAnalyze(t)
    \/ \E t \in Threads : PpDataframe(t)
    \/ \E t \in Threads : PpConfig(t)
    \/ \E t \in Threads : PpPreprocessor(t)
    \/ \E t \in Threads : PpX(t)
    \/ \E t \in Threads : PpY(t)
    \/ \E t \in Threads : TrCheck(t)
    \/ \E t \in Threads : TrX(t)
    \/ \E t \in Threads : TrY(t)
    \/ \E t \in Threads : TrModel(t)
    \/ \E t \in Threads : TrFit(t)
    \/ \E t \in Threads : TrStore(t)
    \/ \E t \in Threads : PersistLocal(t)
    \/ \E t \in Threads : PersistDurable(t)
    \/ \E p \in Procs : Restart(p)

SpecTwo == InitTwo /\ [][NextTwo]_vars

\* C13: in each process a get that finds the id in that process's local
\* tier returns the local entry and reads nothing else, whatever the
\* durable tier holds by now; a get that misses reads the snapshot the
\* durable tier holds at that moment (the last one written with success by
\* any process), and what it unpickles becomes the local entry it returns.
C13_VisibleOnlyThroughMiss ==
    [][\A t \in Threads :
          LET k == R(t).session_id
              p == procOf[t]
          IN /\ (pc[t] = "get" /\ pc'[t] # "get" /\ nrestart' = nrestart
                     /\ SESSIONS[p][k] # 0)
                    => /\ sess'[t] = SESSIONS[p][k]
                       /\ pc'[t] = AfterGet(R(t).kind)
                       /\ heap' = heap /\ SESSIONS' = SESSIONS /\ redis' = redis
             /\ (pc[t] = "get" /\ pc'[t] = "get_loads")
                    => SESSIONS[p][k] = 0 /\ loc'[t] = Some([raw |-> redis[k]])
             /\ (pc[t] = "get_loads" /\ pc'[t] = AfterGet(R(t).kind))
                    => /\ heap'[sess'[t]] = L(t).raw
                       /\ SESSIONS'[p][k] = sess'[t]
                       /\ \A q \in Procs \ {p} : SESSIONS'[q] = SESSIONS[q]]_vars

\* C13 witness: the first process has preprocessed the session and written
\* it through; the second, which holds an older copy in its local tier, has
\* just been handed that copy by get.
C13_Witness ==
    /\ SESSIONS[1][1] # 0 /\ redis[1] = Some(Obj(SESSIONS[1][1]))
    /\ Obj(SESSIONS[1][1]).preprocessor # None
    /\ pc[2] \in {"pp_analyze", "tr_check"}
    /\ sess[2] = SESSIONS[2][1]
    /\ Obj(sess[2]).preprocessor = None

\* ------------------------------------------------------------------ claims: metrics and artifacts
\* The models map of session s has no entry under the name m.
NoEntry(s, m) == IF m \in ModelNames THEN s.models[m] = None ELSE TRUE

\* C14: a metrics or save request that finds no entry for its model type
\* in the session answers 400 NoTrainedModel; no file is written and the
\* session is left as it was in both tiers.
C14_NoTrainedModel ==
    [][\A t \in Threads :
          (pc[t] \in {"cm_lookup", "sv_lookup"} /\ pc'[t] # pc[t] /\ nrestart' = nrestart
               /\ NoEntry(Obj(sess[t]), R(t).model_type))
              => /\ Returns(t)
                 /\ resp'[t][1].status = 400 /\ ErrorOf(t) = "NoTrainedModel"
                 /\ saved_models' = saved_models
                 /\ SESSIONS' = SESSIONS /\ redis' = redis
                 /\ heap'[sess[t]] = heap[sess[t]]]_vars

\* C14 witness: a session with a trained model, asked for another type
\* (here under another of the MLP's names), has answered NoTrainedModel and
\* nothing was saved.
C14_Witness ==
    /\ Idle /\ resp[1] # None /\ resp[1][1].error = "NoTrainedModel"
    /\ SESSIONS[1][1] # 0
    /\ Obj(SESSIONS[1][1]).models["mlp"] # None
    /\ Obj(SESSIONS[1][1]).models["multilayer_perceptron"] = None
    /\ saved_models = {}

\* The session of PreprocessedSession after a perceptron was trained on it
\* with the default test fraction: the updates of train_model, in order.
TrainedSession ==
    LET s == PreprocessedSession
        pre == s.preprocessor[1]
        labels == Labels(s.y[1])
        test == TestPositions(labels, 20)
        train_rows == {s.X[1].rows[i] : i \in DOMAIN labels \ test}
        test_rows == {s.X[1].rows[i] : i \in test}
        model == ModelFor(TrainInput("perceptron", 20, NoHP, 1))
    IN StoreModel(FitPreprocessor(s, pre, train_rows), "perceptron",
                  BuildPipeline(pre, model, train_rows),
                  TrainResult(model, 20, test_rows))

\* Every model_name over the characters of NameChars, and one that is no
\* string.
AllNames == {JStr(c) : c \in SeqsUpTo(NameChars, MaxStrLen + 1)} \cup {JInt(5)}

\* A save request for the trained perceptron has just been read (line 402).
InitSave ==
    /\ USE_REDIS = FALSE
    /\ threaded = FALSE
    /\ procOf = [t \in Threads |-> 1]
    /\ SESSIONS = [p \in Procs |-> [k \in SessionIds |-> IF p = 1 /\ k = 1 THEN 1 ELSE 0]]
    /\ heap = [o \in ObjIds |-> IF o = 1 THEN Some(TrainedSession) ELSE None]
    /\ redis = [k \in SessionIds |-> None]
    /\ minted = 1
    /\ logged = 0
    /\ saved_models = {}
    /\ pc = [t \in Threads |-> IF t = 1 THEN "get" ELSE "idle"]
    /\ \E n \in AllNames :
          req = [t \in Threads |-> IF t = 1
                    THEN Some([kind |-> "save", session_id |-> 1,
                               model_type |-> "perceptron", model_name |-> n])
                    ELSE None]
    /\ sess = [t \in Threads |-> 0]
    /\ loc = [t \in Threads |-> None]
    /\ resp = [t \in Threads |-> None]
    /\ nreq = MaxRequests
    /\ nrestart = MaxRestarts

\* The request runs to its response.
NextSave ==
    \/ \E t \in Threads : GetSession(t)
    \/ \E t \in Threads : SvLookup(t)
    \/ \E t \in Threads : SvDump(t)

SpecSave == InitSave /\ [][NextSave]_vars

\* The characters of NameChars that are neither alphanumeric nor "_" nor "-".
Dropped == {".", "/", "\\", " "}

\* C15: a save that succeeds writes one file, at the path it returns; the
\* path resolves to a file directly inside saved_models, named by what is
\* left of model_name once every character other than alphanumerics, "_"
\* and "-" is removed (no separator, no dot), with ".joblib" appended.
C15_SavedInsideDirectory ==
    [][\A t \in Threads :
          (pc[t] = "sv_dump" /\ Returns(t) /\ resp'[t][1].status = 200)
              => LET name == R(t).model_name.chars
                     path == resp'[t][1].body.path
                     s == SelectSeq(name, LAMBDA c : c \notin Dropped)
                 IN /\ \E f \in saved_models' :
                          /\ f.path = path
                          /\ saved_models' \ {f} = {g \in saved_models : g.path # path}
                    /\ DirOf(path) = << <<"saved_models">> >>
                    /\ FileOf(path) = s \o <<".", "joblib">>
                    /\ \A i \in DOMAIN s : s[i] \notin {"/", "\\", "."}]_vars

\* C15 witness: a save succeeded for a name of which nothing was kept (such
\* as "../"); the file is saved_models/.joblib.
C15_Witness ==
    /\ resp[1] # None /\ resp[1][1].status = 200
    /\ resp[1][1].body.path = <<"saved_models", "/", ".", "joblib">>
    /\ \E f \in saved_models : f.path = resp[1][1].body.path

\* The stored TrainResult of model type m in the session the local tier
\* holds under id k, if any.
ResultOf(k, m) ==
    IF SESSIONS[1][k] = 0 \/ Obj(SESSIONS[1][k]).models[m] = None THEN None
    ELSE Some(Obj(SESSIONS[1][k]).models[m][1].metrics)

ResultAfter(k, m) ==
    IF SESSIONS'[1][k] = 0 \/ heap'[SESSIONS'[1][k]][1].models[m] = None THEN None
    ELSE Some(heap'[SESSIONS'[1][k]][1].models[m][1].metrics)

\* The names train_model accepts for the model type that m names.
SameType(m) == {n \in ModelNames : ReportedType(n) = ReportedType(m)}

\* C16 (as claimed): while the process lives, the result stored for a
\* model type changes only when a training call of that type stores its
\* result, which is the result that call returns; and once a training of a
\* type has stored a result, a metrics call for that type returns it
\* (whole for format=json, its matrix for format=html).
C16_ResultUnchangedUntilRetrain ==
    [][/\ \A k \in SessionIds, m \in ModelNames :
             (nrestart' = nrestart /\ SESSIONS[1][k] # 0
                  /\ ResultAfter(k, m) # ResultOf(k, m))
                 => \E t \in Threads :
                       /\ pc[t] = "tr_store" /\ pc'[t] = "persist_local"
                       /\ R(t).session_id = k /\ R(t).model_type = m
                       /\ ResultAfter(k, m) = Some(L(t).result)
       /\ \A t \in Threads :
             (pc[t] \in {"persist_local", "persist_durable"} /\ Returns(t)
                  /\ R(t).kind = "train")
                 => Some(resp'[t][1].body.metrics)
                        = ResultAfter(R(t).session_id, R(t).model_type)
       /\ \A t \in Threads :
             (pc[t] = "cm_lookup" /\ Returns(t) /\ R(t).model_type \in ModelNames
                  /\ \E n \in SameType(R(t).model_type) :
                        ResultOf(R(t).session_id, n) # None)
                 => /\ resp'[t][1].status = 200
                    /\ \E n \in SameType(R(t).model_type) :
                          LET r == ResultOf(R(t).session_id, n)
                              body == resp'[t][1].body
                          IN /\ r # None
                             /\ R(t).format = "json" => body.metrics = r[1]
                             /\ R(t).format = "html"
                                    => body.confusion_matrix_html = r[1].test_rows]_vars

\* ------------------------------------------------------------------ claims: row dropping
\* The positions of a frame's rows whose value in column c is present.
Present(df, c) == {i \in DOMAIN df.rows : Cells(df.data)[c][df.rows[i]] # 0}

PpSteps == {"pp_df", "pp_config", "pp_pre", "pp_X", "pp_y", "persist_local",
            "persist_durable"}

\* C17: a preprocessing call computes X, y and the cleaned dataset with as
\* many rows as the stored dataset has rows whose target is present, and a
\* dropped count of the rows before minus the rows after; when it has
\* answered 200 the stored dataset, X and y have that number of rows, and
\* the response carries the dropped count exactly when it is not zero.
C17_RowCountsAgree ==
    [][\A t \in Threads :
          /\ (pc[t] = "pp_analyze" /\ pc'[t] \in PpSteps)
                 => LET df == Obj(sess[t]).dataframe
                        n == Cardinality(Present(df, R(t).target_column))
                        l == loc'[t][1]
                    IN /\ Len(l.X.rows) = n /\ Len(l.y.rows) = n /\ Len(l.df.rows) = n
                       /\ l.dropped_rows = Len(df.rows) - n
                       /\ pc'[t] = "pp_df" <=> l.dropped_rows > 0
          /\ (pc[t] \in PpSteps /\ ~Returns(t) /\ nrestart' = nrestart
                  /\ R(t).kind = "preprocess")
                 => loc'[t] = loc[t]
          /\ (pc[t] \in PpSteps /\ Returns(t) /\ R(t).kind = "preprocess")
                 => LET s == StoredAfter(t)
                        n == Len(L(t).X.rows)
                        body == resp'[t][1].body
                    IN /\ resp'[t][1].status = 200
                       /\ Len(s.dataframe.rows) = n
                       /\ Len(s.X[1].rows) = n /\ Len(s.y[1].rows) = n
                       /\ body.dropped_rows_with_missing_target =
                              (IF L(t).dropped_rows = 0 THEN None
                               ELSE Some(L(t).dropped_rows))]_vars

\* C17 witness: a preprocessing call has answered that it dropped the one
\* row without a target, and the stored dataset, X and y have the six
\* rows that are left.
C17_Witness ==
    /\ Idle /\ resp[1] # None /\ resp[1][1].status = 200
    /\ "dropped_rows_with_missing_target" \in DOMAIN resp[1][1].body
    /\ resp[1][1].body.dropped_rows_with_missing_target = Some(1)
    /\ SESSIONS[1][1] # 0
    /\ Len(Obj(SESSIONS[1][1]).dataframe.rows) = 6
    /\ Len(Obj(SESSIONS[1][1]).X[1].rows) = 6
    /\ Len(Obj(SESSIONS[1][1]).y[1].rows) = 6

\* The original row numbers a frame still holds.
RowSet(df) == {df.rows[i] : i \in DOMAIN df.rows}

\* The columns of a frame in which none of its rows is null.
Complete(df) == {c \in DOMAIN Cells(df.data) : \A r \in RowSet(df) : ~IsNull(df, c, r)}

\* C18: row dropping is permanent. While a process lives, the row set of a
\* session's stored dataset never grows, and neither does the row set of
\* its durable snapshot; a preprocessing call leaves no row without a
\* target, keeps every column complete that was complete before it (so the
\* rows dropped for an earlier target stay absent, whatever target is named
\* now), and drops zero rows when the session's current configuration
\* already names its target column.
C18_RowDroppingPermanent ==
    [][/\ \A p \in Procs, k \in SessionIds :
             (SESSIONS[p][k] # 0 /\ SESSIONS'[p][k] # 0)
                 => RowSet(heap'[SESSIONS'[p][k]][1].dataframe)
                        \subseteq RowSet(Obj(SESSIONS[p][k]).dataframe)
       /\ \A k \in SessionIds :
             (redis[k] # None /\ redis'[k] # None)
                 => RowSet(redis'[k][1].dataframe) \subseteq RowSet(redis[k][1].dataframe)
       /\ \A t \in Threads :
             (pc[t] = "pp_analyze" /\ pc'[t] \in PpSteps)
                 => LET s == Obj(sess[t])
                        l == loc'[t][1]
                    IN /\ RowSet(l.df) \subseteq RowSet(s.dataframe)
                       /\ RowSet(l.df) = RowSet(l.X) /\ RowSet(l.df) = RowSet(l.y)
                       /\ Complete(s.dataframe) \cup {R(t).target_column}
                              \subseteq Complete(l.df)
                       /\ (s.preprocess_config # None
                             /\ s.preprocess_config[1].target_column = R(t).target_column)
                            => l.dropped_rows = 0 /\ l.df = s.dataframe]_vars

\* C18 witness: two preprocessing calls with different target columns have
\* each dropped a row, the second one the row without a value in column b,
\* and the row the first one dropped, the one without a value in column t,
\* is still absent.
C18_Witness ==
    /\ Idle /\ SESSIONS[1][1] # 0
    /\ resp[1] # None /\ resp[1][1].status = 200
    /\ "dropped_rows_with_missing_target" \in DOMAIN resp[1][1].body
    /\ resp[1][1].body.dropped_rows_with_missing_target = Some(1)
    /\ Obj(SESSIONS[1][1]).preprocess_config # None
    /\ Obj(SESSIONS[1][1]).preprocess_config[1].target_column = "b"
    /\ RowSet(Obj(SESSIONS[1][1]).dataframe) = {2, 3, 4, 5, 6}

\* ------------------------------------------------------------------ train_and_evaluate
\* A ratio of two integers; the metrics are kept exact.
Frac(num, den) == [num |-> num, den |-> den]

FracAdd(a, b) == Frac(a.num * b.den + b.num * a.den, a.den * b.den)

FracLess(a, b) == a.num * b.den < b.num * a.den

FracEq(a, b) == a.num * b.den = b.num * a.den

\* sklearn's _prf_divide with zero_division=0: a ratio with a zero
\* denominator is scored zero.
PrfDivide(num, den) == IF den = 0 THEN Frac(0, 1) ELSE Frac(num, den)

RECURSIVE SortedSeq(_)
SortedSeq(S) ==
    IF S = {} THEN <<>>
    ELSE LET m == CHOOSE x \in S : \A z \in S : x <= z
         IN <<m>> \o SortedSeq(S \ {m})

\* Mutant: the labels are those of the true values only.
UniqueLabels_TrueOnly(y_true, y_pred) == SortedSeq(SeqToSet(y_true))

\* sklearn's unique_labels(y_true, y_pred): the labels of both vectors, sorted.
UniqueLabels(y_true, y_pred) == SortedSeq(SeqToSet(y_true) \cup SeqToSet(y_pred))

\* How many test rows of true class a were predicted as class b.
Count(y_true, y_pred, a, b) ==
    Cardinality({i \in DOMAIN y_true : y_true[i] = a /\ y_pred[i] = b})

\* confusion_matrix(y_test, y_pred), labels not given: one row per true
\* label and one column per predicted label, over unique_labels; a pair
\* with a label outside them is not counted.
ConfusionMatrix(y_true, y_pred) ==
    LET labels == UniqueLabels(y_true, y_pred)
    IN [i \in DOMAIN labels |->
           [j \in DOMAIN labels |-> Count(y_true, y_pred, labels[i], labels[j])]]

\* accuracy_score(y_test, y_pred)
AccuracyScore(y_true, y_pred) ==
    Frac(Cardinality({i \in DOMAIN y_true : y_true[i] = y_pred[i]}), Len(y_true))

Tp(y_true, y_pred, c) == Count(y_true, y_pred, c, c)

Fp(y_true, y_pred, c) ==
    Cardinality({i \in DOMAIN y_true : y_pred[i] = c /\ y_true[i] # c})

Fn(y_true, y_pred, c) ==
    Cardinality({i \in DOMAIN y_true : y_true[i] = c /\ y_pred[i] # c})

\* The per-class scores of precision_recall_fscore_support.
PrecisionOf(y_true, y_pred, c) ==
    PrfDivide(Tp(y_true, y_pred, c), Tp(y_true, y_pred, c) + Fp(y_true, y_pred, c))

RecallOf(y_true, y_pred, c) ==
    PrfDivide(Tp(y_true, y_pred, c), Tp(y_true, y_pred, c) + Fn(y_true, y_pred, c))

F1Of(y_true, y_pred, c) ==
    PrfDivide(2 * Tp(y_true, y_pred, c),
              2 * Tp(y_true, y_pred, c) + Fp(y_true, y_pred, c) + Fn(y_true, y_pred, c))

RECURSIVE FracSum(_, _)
FracSum(S, f) ==
    IF S = {} THEN Frac(0, 1)
    ELSE LET x == CHOOSE x \in S : TRUE IN FracAdd(f[x], FracSum(S \ {x}, f))

\* Mutant: average="weighted", every class weighted by its support.
MacroAverage_Weighted(y_true, y_pred, score) ==
    LET cls == SeqToSet(UniqueLabels(y_true, y_pred))
        sum == FracSum(cls, [c \in cls |->
                   Frac(score[c].num * Cardinality(PositionsOf(y_true, c)), score[c].den)])
    IN Frac(sum.num, sum.den * Len(y_true))

\* average="macro": the unweighted mean of the per-class scores over
\* unique_labels.
MacroAverage(y_true, y_pred, score) ==
    LET cls == SeqToSet(UniqueLabels(y_true, y_pred))
        sum == FracSum(cls, score)
    IN Frac(sum.num, sum.den * Cardinality(cls))

\* The score of every label of unique_labels, before the averaging.
PrecisionPerClass(y_true, y_pred) ==
    [c \in SeqToSet(UniqueLabels(y_true, y_pred)) |-> PrecisionOf(y_true, y_pred, c)]

RecallPerClass(y_true, y_pred) ==
    [c \in SeqToSet(UniqueLabels(y_true, y_pred)) |-> RecallOf(y_true, y_pred, c)]

F1PerClass(y_true, y_pred) ==
    [c \in SeqToSet(UniqueLabels(y_true, y_pred)) |-> F1Of(y_true, y_pred, c)]

\* Lines 105-113: the TrainResult's metrics.
Evaluate(y_test, y_pred) ==
    [accuracy |-> AccuracyScore(y_test, y_pred),
     precision |-> MacroAverage(y_test, y_pred, PrecisionPerClass(y_test, y_pred)),
     recall |-> MacroAverage(y_test, y_pred, RecallPerClass(y_test, y_pred)),
     f1 |-> MacroAverage(y_test, y_pred, F1PerClass(y_test, y_pred)),
     confusion_matrix |-> ConfusionMatrix(y_test, y_pred)]

\* The elements of a sequence at a set of positions, in order.
Take(s, P) == LET pos == SortedSeq(P) IN [i \in DOMAIN pos |-> s[pos[i]]]

\* The target series tried: two balanced classes, two classes of eight and
\* two rows, three classes of two rows, three classes of two, two and eight
\* rows.
LabelInputs ==
    {<<1, 1, 1, 2, 2, 2>>,
     <<1, 1, 1, 1, 1, 1, 1, 1, 2, 2>>,
     <<1, 1, 2, 2, 3, 3>>,
     <<1, 1, 2, 2, 3, 3, 3, 3, 3, 3, 3, 3>>}

\* Lines 93-95: train_test_split, which raises or leaves the two label
\* partitions.
TeSplit(t) ==
    /\ pc[t] = "te_split"
    /\ LET y == R(t).y
           test == TestPositions(y, R(t).test_size)
       IN IF SplitFails(Len(y), y, R(t).test_size)
          THEN /\ Goto(t, "te_raised")
               /\ UNCHANGED loc
          ELSE /\ Goto(t, "te_predict")
               /\ loc' = [loc EXCEPT ![t] = Some(
                     [y_train |-> Take(y, DOMAIN y \ test), y_test |-> Take(y, test)])]
    /\ UNCHANGED <<deploy, disk, store, req, sess, resp, budget>>

\* Lines 99-100: the pipeline is fitted and predicts the test partition:
\* one of the classes it was fitted on for every test row.
TePredict(t) ==
    /\ pc[t] = "te_predict"
    /\ \E y_pred \in [DOMAIN L(t).y_test -> SeqToSet(L(t).y_train)] :
          loc' = [loc EXCEPT ![t] =
                     Some([y_test |-> L(t).y_test, y_pred |-> y_pred])]
    /\ Goto(t, "te_result")
    /\ UNCHANGED <<deploy, disk, store, req, sess, resp, budget>>

\* Lines 105-114: the TrainResult is built and returned.
TeResult(t) ==
    /\ pc[t] = "te_result"
    /\ loc' = [loc EXCEPT ![t] =
                  Some([y_test |-> L(t).y_test, y_pred |-> L(t).y_pred,
                        result |-> Evaluate(L(t).y_test, L(t).y_pred)])]
    /\ Goto(t, "te_return")
    /\ UNCHANGED <<deploy, disk, store, req, sess, resp, budget>>

\* One call of train_and_evaluate, on any of the target series with a test
\* fraction of 0.2 or 0.5.
InitScore ==
    /\ USE_REDIS = FALSE
    /\ threaded = FALSE
    /\ procOf = [t \in Threads |-> 1]
    /\ SESSIONS = [p \in Procs |-> [k \in SessionIds |-> 0]]
    /\ heap = [o \in ObjIds |-> None]
    /\ redis = [k \in SessionIds |-> None]
    /\ minted = 0
    /\ logged = 0
    /\ saved_models = {}
    /\ pc = [t \in Threads |-> IF t = 1 THEN "te_split" ELSE "idle"]
    /\ \E y \in LabelInputs, test_size \in {20, 50} :
          req = [t \in Threads |-> IF t = 1
                    THEN Some([kind |-> "train_and_evaluate", y |-> y,
                               test_size |-> test_size])
                    ELSE None]
    /\ sess = [t \in Threads |-> 0]
    /\ loc = [t \in Threads |-> None]
    /\ resp = [t \in Threads |-> None]
    /\ nreq = MaxRequests
    /\ nrestart = MaxRestarts

NextScore ==
    \/ \E t \in Threads : TeSplit(t)
    \/ \E t \in Threads : TePredict(t)
    \/ \E t \in Threads : TeResult(t)

SpecScore == InitScore /\ [][NextScore]_vars

\* ------------------------------------------------------------------ claims: metrics
Returned(t) == pc[t] = "te_return"

Support(y_test, c) == Cardinality(PositionsOf(y_test, c))

RowSum(matrix, i) == SumOver(DOMAIN matrix[i], matrix[i])

Total(matrix) == SumOver(DOMAIN matrix, [i \in DOMAIN matrix |-> RowSum(matrix, i)])

Square(matrix, side) ==
    /\ DOMAIN matrix = 1..side
    /\ \A i \in DOMAIN matrix : DOMAIN matrix[i] = 1..side

\* C19 (as claimed): the confusion matrix of a returned TrainResult is
\* square with as many rows as the test partition has distinct classes, the
\* row of each of these classes sums to its support, and the entries sum to
\* the size of the test partition.
C19_SideIsTestClasses ==
    \A t \in Threads : Returned(t) =>
        LET y_test == L(t).y_test
            matrix == L(t).result.confusion_matrix
            classes == SortedSeq(SeqToSet(y_test))
        IN /\ Square(matrix, Len(classes))
           /\ \A i \in DOMAIN classes : RowSum(matrix, i) = Support(y_test, classes[i])
           /\ Total(matrix) = Len(y_test)

\* C19 (corrected): the confusion matrix is square with one row and one
\* column for every class that occurs in the test partition or among the
\* predictions, in sorted order; every row sums to the support of its class
\* in the test partition, which is zero for a class that was only
\* predicted; the entries sum to the size of the test partition; the side
\* is the number of classes of the test partition exactly when every
\* predicted class occurs in it.
C19_SideIsTestAndPredictedClasses ==
    \A t \in Threads : Returned(t) =>
        LET y_test == L(t).y_test
            y_pred == L(t).y_pred
            matrix == L(t).result.confusion_matrix
            classes == SortedSeq(SeqToSet(y_test) \cup SeqToSet(y_pred))
        IN /\ Square(matrix, Len(classes))
           /\ \A i \in DOMAIN classes : RowSum(matrix, i) = Support(y_test, classes[i])
           /\ Total(matrix) = Len(y_test)
           /\ Len(classes) = Cardinality(SeqToSet(y_test))
                  <=> SeqToSet(y_pred) \subseteq SeqToSet(y_test)

\* C19 witness: the test partition holds rows of one class only, a row is
\* predicted as the other class of the training partition, and the matrix
\* has two rows, the second of them empty.
C19_Witness ==
    /\ Returned(1)
    /\ L(1).y_test = <<1, 1>>
    /\ L(1).y_pred = <<1, 2>>
    /\ L(1).result.confusion_matrix = << <<1, 1>>, <<0, 0>> >>

\* The classes of nonzero support that are never predicted, when the test
\* partition of a returned call has three classes.
NeverPredicted(t) ==
    IF Returned(t) /\ Cardinality(SeqToSet(L(t).y_test)) = 3
    THEN SeqToSet(L(t).y_test) \ SeqToSet(L(t).y_pred)
    ELSE {}

InitKept ==
    /\ USE_REDIS \in BOOLEAN
    /\ threaded = FALSE
    /\ procOf = [t \in Threads |-> 1]
    /\ SESSIONS = [p \in Procs |-> [k \in SessionIds |-> IF p = 1 /\ k = 1 THEN 1 ELSE 0]]
    /\ heap = [o \in ObjIds |-> IF o = 1 THEN Some(TrainedSession) ELSE None]
    /\ redis = [k \in SessionIds |->
                   IF USE_REDIS /\ k = 1 THEN Some(TrainedSession) ELSE None]
    /\ minted = 1
    /\ logged = 0
    /\ saved_models = {}
    /\ pc = [t \in Threads |-> "idle"]
    /\ req = [t \in Threads |-> None]
    /\ sess = [t \in Threads |-> 0]
    /\ loc = [t \in Threads |-> None]
    /\ resp = [t \in Threads |-> None]
    /\ nreq = MaxRequests - 3
    /\ nrestart = 0

SpecKept == InitKept /\ [][NextAll]_vars

\* The request thread t is handling, if any, is of the given kind.
Handling(t, kind) == pc[t] # "idle" /\ req[t] # None /\ R(t).kind = kind

\* C21: no step of a preprocessing call changes the models map of the
\* session or any object a stored pipeline refers to; a metrics retrieval
\* answers with the metrics of the entry stored under its model type and a
\* save writes that entry's pipeline, whatever configuration the session
\* has by then.
C21_PreprocessKeepsModels ==
    [][\A t \in Threads :
          /\ (Handling(t, "preprocess") /\ LocalEntry(t) # 0
                  /\ SESSIONS'[procOf[t]][R(t).session_id] # 0)
                 => LET s == Obj(LocalEntry(t))
                        s2 == heap'[SESSIONS'[procOf[t]][R(t).session_id]][1]
                    IN /\ s2.models = s.models
                       /\ \A i \in DOMAIN s.objs : s2.objs[i] = s.objs[i]
          /\ (Handling(t, "metrics") /\ pc[t] = "cm_lookup" /\ nrestart' = nrestart
                  /\ ModelInfo(Obj(sess[t]), R(t).model_type) # None)
                 => /\ resp'[t] # None /\ resp'[t][1].status = 200
                    /\ resp'[t][1].body =
                           MetricsBody(R(t).model_type,
                                       Obj(sess[t]).models[R(t).model_type][1].metrics,
                                       R(t).format)
          /\ (Handling(t, "save") /\ pc[t] = "sv_dump" /\ resp'[t] # None
                  /\ resp'[t][1].status = 200)
                 => LET entry == Obj(sess[t]).models[R(t).model_type][1]
                    IN saved_models' = WriteFile(saved_models, resp'[t][1].body.path,
                                                 Dumped(Obj(sess[t]), entry.pipeline))]_vars

\* C21 witness: the session has been preprocessed again, for target b, and
\* the save that followed has written the perceptron pipeline trained for
\* target t, which is still in the models map as it was.
C21_Witness ==
    /\ Idle /\ SESSIONS[1][1] # 0
    /\ Obj(SESSIONS[1][1]).preprocess_config[1].target_column = "b"
    /\ Obj(SESSIONS[1][1]).models = TrainedSession.models
    /\ resp[1] # None /\ resp[1][1].status = 200
    /\ "path" \in DOMAIN resp[1][1].body
    /\ \E f \in saved_models :
          f.content = Dumped(TrainedSession, TrainedSession.models["perceptron"][1].pipeline)

\* What a stored pipeline is made of: its estimator and the transformer
\* object it holds.
ModelsOf(s) ==
    [m \in ModelNames |->
        IF s.models[m] = None THEN None
        ELSE Some([pipeline |-> Dumped(s, s.models[m][1].pipeline),
                   metrics |-> s.models[m][1].metrics])]

\* The dataset, preprocess_config, X, y and models of a session object.
Kept(s) ==
    [dataframe |-> s.dataframe, preprocess_config |-> s.preprocess_config,
     X |-> s.X, y |-> s.y, models |-> ModelsOf(s)]

\* The points of preprocess_data and train_model at which a request can
\* still end in an error.
BeforeCommit ==
    {"get", "get_loads", "pp_analyze", "tr_check", "tr_X", "tr_y", "tr_model", "tr_fit"}

\* C22 (as claimed): a preprocess or train request answers with an error
\* only from a point up to which it has changed nothing: no step of it
\* before the fit, and no fit that ends in an error, changes the dataset,
\* preprocess_config, X, y or models of a session the local tier holds, or
\* writes to the durable tier.
C22_FailedRequestChangesNothing ==
    [][\A t \in Threads :
          (Handling(t, "preprocess") \/ Handling(t, "train")) =>
              /\ (Returns(t) /\ resp'[t][1].status # 200) => pc[t] \in BeforeCommit
              /\ (pc[t] \in BeforeCommit /\ nrestart' = nrestart
                      /\ (pc[t] = "tr_fit" => Returns(t)))
                     => /\ redis' = redis
                        /\ \A k \in SessionIds :
                              SESSIONS[procOf[t]][k] # 0
                                  => /\ SESSIONS'[procOf[t]][k] # 0
                                     /\ Kept(heap'[SESSIONS'[procOf[t]][k]][1])
                                            = Kept(Obj(SESSIONS[procOf[t]][k]))]_vars

\* ------------------------------------------------------------------ claims: hidden-layer tuple
\* C23: whenever the hidden-layer fields of an MLP request are parsed with
\* success, the tuple the MLP is built with is non-empty and every element
\* of it is a positive integer.
C23_TupleNonEmptyAndPositive ==
    [][\A t \in Threads : (Parses(t) /\ pc'[t] = "tr_fit") =>
          LET sizes == loc'[t][1].model.hidden_layer_sizes
          IN /\ sizes # <<>>
             /\ \A i \in DOMAIN sizes : sizes[i] \in Nat \ {0}]_vars

\* ------------------------------------------------------------------ claims: lost update
\* Two processes share the durable tier; both cached the session after it
\* was uploaded and preprocessed, and the durable tier holds that snapshot.
\* Three requests and two restarts follow.
InitShared ==
    /\ USE_REDIS = TRUE
    /\ threaded = FALSE
    /\ procOf = [t \in Threads |-> t]
    /\ SESSIONS = [p \in Procs |-> [k \in SessionIds |-> IF k = 1 THEN p ELSE 0]]
    /\ heap = [o \in ObjIds |-> IF o \in Procs THEN Some(PreprocessedSession) ELSE None]
    /\ redis = [k \in SessionIds |-> IF k = 1 THEN Some(PreprocessedSession) ELSE None]
    /\ minted = 1
    /\ logged = 0
    /\ saved_models = {}
    /\ pc = [t \in Threads |-> "idle"]
    /\ req = [t \in Threads |-> None]
    /\ sess = [t \in Threads |-> 0]
    /\ loc = [t \in Threads |-> None]
    /\ resp = [t \in Threads |-> None]
    /\ nreq = MaxRequests - 3
    /\ nrestart = MaxRestarts - 2

SpecShared == InitShared /\ [][NextTwo]_vars

\* C24: a durable write that succeeds leaves the writer's local copy as the
\* snapshot, whatever the snapshot was: a model entry the writer's copy
\* does not have is not in the snapshot after it, also when another
\* process had written it there; a write that fails leaves the snapshot;
\* and the session a process gets after a local miss is the snapshot it
\* read.
C24_PutReplacesSnapshot ==
    [][\A t \in Threads :
          LET k == R(t).session_id IN
          /\ (pc[t] = "persist_durable" /\ Returns(t))
                 => /\ redis'[k] = Some(Obj(sess[t])) \/ redis' = redis
                    /\ redis' = redis => logged' = logged + 1 \/ redis[k] = Some(Obj(sess[t]))
                    /\ logged' = logged
                           => \A m \in ModelNames :
                                 Obj(sess[t]).models[m] = None
                                     => redis'[k][1].models[m] = None
          /\ (pc[t] = "get" /\ pc'[t] = "get_loads") => loc'[t][1].raw = redis[k]
          /\ (pc[t] = "get_loads" /\ pc'[t] = AfterGet(R(t).kind))
                 => heap'[SESSIONS'[procOf[t]][k]] = L(t).raw]_vars

\* C24 witness: no write has failed; the first process holds the perceptron
\* it trained and wrote through, the second process, which had cached the
\* session before, holds the decision tree it trained after that and not
\* the perceptron, and the snapshot is the second process's copy: the
\* decision tree without the perceptron.
C24_Witness ==
    /\ Idle /\ logged = 0 /\ nrestart = MaxRestarts - 2
    /\ SESSIONS[1][1] # 0 /\ SESSIONS[2][1] # 0
    /\ Obj(SESSIONS[1][1]).models["perceptron"] # None
    /\ Obj(SESSIONS[2][1]).models["perceptron"] = None
    /\ Obj(SESSIONS[2][1]).models["decision_tree"] # None
    /\ redis[1] = Some(Obj(SESSIONS[2][1]))
    /\ redis[1][1].models["perceptron"] = None

====
